---- MODULE Spec2Model ----
(***************************************************************************)
(* Model of the nutrition-coaching application: the RAG-lite helpers of    *)
(* nutrition_rag.py (chunk_text, simple_keyword_search) and the request    *)
(* handler of app.py (process_nutrition_request and what it calls).        *)
(*                                                                         *)
(* A Python str is a TLA+ string, that is a sequence of characters, and    *)
(* substring tests, str.count, str.split, str.lower and str.strip are      *)
(* computed on it with Len, SubSeq, Head, Tail and \o.                     *)
(***************************************************************************)
EXTENDS Integers, Sequences, FiniteSets, TLC

VARIABLES
    pc,          \* position of the component under study
    text,        \* chunk_text: argument text
    chunk_size,  \* chunk_text: argument chunk_size
    overlap,     \* chunk_text: argument overlap
    chunks,      \* chunk_text: returned list
    query,       \* simple_keyword_search: argument query
    search_chunks, \* simple_keyword_search: argument chunks
    top_k,       \* simple_keyword_search: argument top_k
    results,     \* simple_keyword_search: returned list
    documents,       \* build_context_from_documents, enhance_prompt_with_rag: argument
    context,         \* build_context_from_documents: returned string
    enhanced_prompt, \* enhance_prompt_with_rag: returned string
    safety_text,     \* check_nutrition_safety: argument text
    classifiers,     \* check_nutrition_safety: what the two classifiers do
    verdict,         \* check_nutrition_safety: returned pair
    recipe,          \* filter_recipe_for_user_safety: argument recipe_text
    filter_result,   \* filter_recipe_for_user_safety: returned triple
    calc_food,  \* calculate_nutrition: argument food_item
    calc_quantity,  \* calculate_nutrition: argument quantity
    calc_env,  \* calculate_nutrition: credentials and what the API does
    calc_result,  \* calculate_nutrition: returned dict
    api_requests,  \* calculate_nutrition: calls of requests.get
    widget_files,  \* st.file_uploader: the files the widget holds
    page_event,  \* the interaction that caused the last run of the page
    csv_file,  \* process_csv_file: argument uploaded_file
    csv_content,  \* process_csv_file: returned string
    TTS_AVAILABLE,  \* app.py: whether edge_tts was imported
    speech_text,  \* text_to_speech: argument text
    speech_stream,  \* text_to_speech: what communicate.stream() does
    speech_loops,  \* text_to_speech: the event loops created so far
    speech_result,  \* text_to_speech: returned value
    speech_calls,  \* text_to_speech: calls so far
    SENTIMENT_AVAILABLE,          \* app.py: whether the classifiers loaded
    user_profile,                 \* st.session_state.user_profile
    enable_streaming,             \* sidebar setting
    enable_nutrition_calculator,  \* sidebar setting
    enable_meal_logging,          \* sidebar setting
    chat_history,                 \* st.session_state.chat_history
    meal_log,                     \* st.session_state.meal_log
    nutrition_data,               \* st.session_state.nutrition_data
    latest_ai_response,           \* st.session_state.latest_ai_response
    clear_image,                  \* st.session_state.clear_image
    nutrition_documents,          \* st.session_state.nutrition_documents
    displayed,     \* the response text on the page after the last request
    sent_prompt,   \* the text last passed to the generation service
    gen_calls,     \* calls of the generation service so far
    calc_calls,    \* calls of calculate_nutrition so far
    requests,      \* calls of process_nutrition_request so far
    last_request   \* the last request: flagged terms, generation result, outcome

chunkVars == <<text, chunk_size, overlap, chunks>>
searchVars == <<query, search_chunks, top_k, results>>
ragVars == <<documents, context, enhanced_prompt>>
safetyVars == <<safety_text, classifiers, verdict>>
filterVars == <<recipe, filter_result>>
calcVars == <<calc_food, calc_quantity, calc_env, calc_result, api_requests>>
uploadVars == <<widget_files, page_event>>
csvVars == <<csv_file, csv_content>>
speechVars == <<TTS_AVAILABLE, speech_text, speech_stream, speech_loops,
                speech_result, speech_calls>>
configVars == <<SENTIMENT_AVAILABLE, user_profile, enable_streaming,
                enable_nutrition_calculator, enable_meal_logging>>
sessionVars == <<chat_history, meal_log, nutrition_data, latest_ai_response,
                 clear_image, nutrition_documents, displayed, sent_prompt,
                 gen_calls, calc_calls, requests, last_request>>
vars == <<pc, chunkVars, searchVars, ragVars, safetyVars, filterVars,
          calcVars,
          uploadVars,
          csvVars,
          speechVars,
          configVars, sessionVars>>

\* The values the variables of a component hold while another is studied.
ChunkIdle == text = "" /\ chunk_size = 1 /\ overlap = 0 /\ chunks = <<>>
SearchIdle == query = "" /\ search_chunks = <<>> /\ top_k = 0 /\ results = <<>>
RagIdle == documents = <<>> /\ context = "" /\ enhanced_prompt = ""
SafetyIdle ==
    /\ safety_text = ""
    /\ classifiers = [toxicity |-> [raises |-> TRUE, scores |-> <<>>],
                      sentiment |-> [raises |-> TRUE, label |-> "", score |-> 0]]
    /\ verdict = [is_safe |-> TRUE, flagged |-> <<>>]
FilterIdle ==
    /\ recipe = ""
    /\ filter_result = [is_safe |-> TRUE, filtered_content |-> "", warnings |-> <<>>]
CalcIdle ==
    /\ calc_food = ""
    /\ calc_quantity = ""
    /\ calc_env = [has_credentials |-> FALSE]
    /\ calc_result = <<>>
    /\ api_requests = 0
UploadIdle ==
    /\ widget_files = <<>>
    /\ page_event = "none"
CsvIdle ==
    /\ csv_file = [name |-> "", ok |-> FALSE]
    /\ csv_content = ""
SpeechIdle ==
    /\ TTS_AVAILABLE = FALSE
    /\ speech_text = ""
    /\ speech_stream = "raises"
    /\ speech_loops = <<>>
    /\ speech_result = <<>>
    /\ speech_calls = 0

----------------------------------------------------------------------------
(* Bounds of the model.                                                     *)

MaxTextLen == 7
MaxChunkSize == 3
MaxQueryLen == 3
MaxChunkLen == 4
MaxRequests == 1
MaxChunks == 3
MaxTopK == 3
MaxDocs == 2
MaxWidgetFiles == 3
MaxSpeechCalls == 2

----------------------------------------------------------------------------
(* Python str primitives.                                                   *)

Whitespace == {" ", "\n"}

Min(a, b) == IF a < b THEN a ELSE b
Max(a, b) == IF a > b THEN a ELSE b

\* All strings over the characters S of length at most n.
RECURSIVE StrsUpTo(_, _)
StrsUpTo(S, n) ==
    IF n = 0 THEN {""}
    ELSE LET shorter == StrsUpTo(S, n - 1)
         IN  shorter \cup {t \o c : t \in shorter, c \in S}

\* The i-th character of s (1-based).
Char(s, i) == SubSeq(s, i, i)

\* str.lower on one character.
LowerChar(c) ==
    CASE c = "A" -> "a" [] c = "B" -> "b" [] c = "C" -> "c" [] c = "D" -> "d"
      [] c = "E" -> "e" [] c = "F" -> "f" [] c = "G" -> "g" [] c = "H" -> "h"
      [] c = "I" -> "i" [] c = "J" -> "j" [] c = "K" -> "k" [] c = "L" -> "l"
      [] c = "M" -> "m" [] c = "N" -> "n" [] c = "O" -> "o" [] c = "P" -> "p"
      [] c = "Q" -> "q" [] c = "R" -> "r" [] c = "S" -> "s" [] c = "T" -> "t"
      [] c = "U" -> "u" [] c = "V" -> "v" [] c = "W" -> "w" [] c = "X" -> "x"
      [] c = "Y" -> "y" [] c = "Z" -> "z"
      [] OTHER -> c

\* str.lower(): every character in lower case, the string taken by halves.
RECURSIVE Lower(_)
Lower(s) ==
    IF Len(s) <= 1 THEN LowerChar(s)
    ELSE Lower(SubSeq(s, 1, Len(s) \div 2))
         \o Lower(SubSeq(s, Len(s) \div 2 + 1, Len(s)))

\* sub in s
Contains(s, sub) ==
    \E i \in 1..(Len(s) - Len(sub) + 1) : SubSeq(s, i, i + Len(sub) - 1) = sub

\* str.strip(): drop leading and trailing whitespace.
Strip(s) ==
    LET keep == {i \in 1..Len(s) : Char(s, i) \notin Whitespace}
    IN  IF keep = {} THEN ""
        ELSE LET lo == CHOOSE i \in keep : \A j \in keep : i <= j
                 hi == CHOOSE i \in keep : \A j \in keep : i >= j
             IN  SubSeq(s, lo, hi)

\* str.split(): the maximal runs of non-whitespace characters, in order.
RECURSIVE Split(_)
Split(s) ==
    IF s = "" THEN <<>>
    ELSE IF Head(s) \in Whitespace THEN Split(Tail(s))
    ELSE LET n == CHOOSE k \in 1..Len(s) :
                    /\ \A j \in 1..k : Char(s, j) \notin Whitespace
                    /\ (k = Len(s) \/ Char(s, k + 1) \in Whitespace)
         IN  <<SubSeq(s, 1, n)>> \o Split(SubSeq(s, n + 1, Len(s)))

\* " ".join(ws)
RECURSIVE Join(_)
Join(ws) ==
    IF ws = <<>> THEN ""
    ELSE IF Len(ws) = 1 THEN ws[1]
    ELSE ws[1] \o " " \o Join(Tail(ws))

\* words[i:j] of Python (0-based, end exclusive, clipped to the list).
Slice(ws, i, j) == SubSeq(ws, i + 1, Min(j, Len(ws)))

----------------------------------------------------------------------------
(* nutrition_rag.py: chunk_text                                             *)

\* The loop `for i in range(0, len(words), step)` from index i on.
RECURSIVE ChunkLoop(_, _, _, _)
ChunkLoop(words, i, step, size) ==
    IF i >= Len(words) THEN <<>>
    ELSE LET chunk == Join(Slice(words, i, i + size))
         IN  (IF Strip(chunk) # "" THEN <<Strip(chunk)>> ELSE <<>>)
             \o ChunkLoop(words, i + step, step, size)

\* Mutant: the window advances by chunk_size, the overlap is forgotten.
chunk_text_no_overlap(t, size, ov) == ChunkLoop(Split(t), 0, size, size)

\* Mutant: the loop stops as soon as a window has reached the last word.
RECURSIVE ChunkLoopStop(_, _, _, _)
ChunkLoopStop(words, i, step, size) ==
    IF i >= Len(words) THEN <<>>
    ELSE <<Join(Slice(words, i, i + size))>>
         \o (IF i + size >= Len(words) THEN <<>>
             ELSE ChunkLoopStop(words, i + step, step, size))

chunk_text_stop_at_end(t, size, ov) == ChunkLoopStop(Split(t), 0, size - ov, size)

chunk_text(t, size, ov) == ChunkLoop(Split(t), 0, size - ov, size)

----------------------------------------------------------------------------
(* nutrition_rag.py: simple_keyword_search                                  *)

\* str.count(sub): occurrences found scanning left to right, the scan
\* resuming after the end of each occurrence found.
RECURSIVE CountFrom(_, _, _)
CountFrom(s, sub, i) ==
    LET hits == {j \in i..(Len(s) - Len(sub) + 1) :
                    SubSeq(s, j, j + Len(sub) - 1) = sub}
    IN  IF hits = {} THEN 0
        ELSE 1 + CountFrom(s, sub, (CHOOSE j \in hits : \A k \in hits : j <= k)
                                    + Len(sub))

\* Mutant: every position where sub matches is counted, overlapping or not.
CountOverlapping(s, sub) ==
    IF sub = "" THEN Len(s) + 1
    ELSE Cardinality({i \in 1..(Len(s) - Len(sub) + 1) :
                        SubSeq(s, i, i + Len(sub) - 1) = sub})

Count(s, sub) == IF sub = "" THEN Len(s) + 1 ELSE CountFrom(s, sub, 1)

PhraseBonus == 5
DefaultTopK == 3

\* The loop over query_words: score += chunk_lower.count(word) if word in it.
RECURSIVE KeywordScore(_, _)
KeywordScore(query_words, chunk_lower) ==
    IF query_words = <<>> THEN 0
    ELSE (IF Contains(chunk_lower, Head(query_words))
          THEN Count(chunk_lower, Head(query_words)) ELSE 0)
         + KeywordScore(Tail(query_words), chunk_lower)

\* Mutant: the exact-phrase bonus is left out.
ChunkScoreNoBonus(q, chunk) == KeywordScore(Split(Lower(q)), Lower(chunk))

\* The score of one chunk (the body of the loop over chunks).
ChunkScore(q, chunk) ==
    KeywordScore(Split(Lower(q)), Lower(chunk))
    + (IF Contains(Lower(chunk), Lower(q)) THEN PhraseBonus ELSE 0)

\* Mutant: the chunks of score 0 are kept as well.
RECURSIVE ScoredChunksKeepZero(_, _, _)
ScoredChunksKeepZero(q, cs, i) ==
    IF i > Len(cs) THEN <<>>
    ELSE <<[chunk |-> cs[i], score |-> ChunkScore(q, cs[i]), index |-> i - 1]>>
         \o ScoredChunksKeepZero(q, cs, i + 1)

\* scored_chunks: the entries of the chunks with score > 0, in chunk order.
RECURSIVE ScoredChunks(_, _, _)
ScoredChunks(q, cs, i) ==
    IF i > Len(cs) THEN <<>>
    ELSE (IF ChunkScore(q, cs[i]) > 0
          THEN <<[chunk |-> cs[i], score |-> ChunkScore(q, cs[i]), index |-> i - 1]>>
          ELSE <<>>)
         \o ScoredChunks(q, cs, i + 1)

\* Mutant: an unstable sort, a later entry goes before its equals.
RECURSIVE InsertByScoreBeforeEquals(_, _)
InsertByScoreBeforeEquals(sorted, e) ==
    IF sorted = <<>> THEN <<e>>
    ELSE IF Head(sorted).score > e.score
         THEN <<Head(sorted)>> \o InsertByScoreBeforeEquals(Tail(sorted), e)
         ELSE <<e>> \o sorted

\* list.sort(key=score, reverse=True): stable, descending by score.
RECURSIVE InsertByScore(_, _)
InsertByScore(sorted, e) ==
    IF sorted = <<>> THEN <<e>>
    ELSE IF Head(sorted).score >= e.score
         THEN <<Head(sorted)>> \o InsertByScore(Tail(sorted), e)
         ELSE <<e>> \o sorted

RECURSIVE SortByScoreDesc(_)
SortByScoreDesc(es) ==
    IF es = <<>> THEN <<>>
    ELSE InsertByScore(SortByScoreDesc(SubSeq(es, 1, Len(es) - 1)), es[Len(es)])

simple_keyword_search(q, cs, k) ==
    Slice(SortByScoreDesc(ScoredChunks(q, cs, 1)), 0, k)

----------------------------------------------------------------------------
(* Python values and helpers used by app.py.                                *)

\* None, and the empty dict {}; a dict is a record.
None == [py |-> "None"]
EmptyDict == [py |-> "{}"]

\* Python truth of None, {} or a non-empty dict.
Truthy(v) == v # None /\ v # EmptyDict

\* any(kw in s for kw in kws)
AnyIn(s, kws) == \E i \in 1..Len(kws) : Contains(s, kws[i])

\* [kw for kw in kws if kw in s]
RECURSIVE ThoseIn(_, _)
ThoseIn(s, kws) ==
    IF kws = <<>> THEN <<>>
    ELSE (IF Contains(s, Head(kws)) THEN <<Head(kws)>> ELSE <<>>)
         \o ThoseIn(s, Tail(kws))

\* sep.join(ws)
RECURSIVE JoinWith(_, _)
JoinWith(ws, sep) ==
    IF ws = <<>> THEN ""
    ELSE IF Len(ws) = 1 THEN ws[1]
    ELSE ws[1] \o sep \o JoinWith(Tail(ws), sep)

\* s.split(sep) for a one-character sep: the pieces between the separators.
RECURSIVE SplitOn(_, _)
SplitOn(s, sep) ==
    LET hits == {i \in 1..Len(s) : Char(s, i) = sep}
    IN  IF hits = {} THEN <<s>>
        ELSE LET i == CHOOSE h \in hits : \A g \in hits : h <= g
             IN  <<SubSeq(s, 1, i - 1)>> \o SplitOn(SubSeq(s, i + 1, Len(s)), sep)

\* s.replace(old, ""), old non-empty: the occurrences found left to right.
RECURSIVE Remove(_, _)
Remove(s, old) ==
    IF Len(s) < Len(old) THEN s
    ELSE IF SubSeq(s, 1, Len(old)) = old
         THEN Remove(SubSeq(s, Len(old) + 1, Len(s)), old)
         ELSE Head(s) \o Remove(Tail(s), old)

\* s[:n]
Prefix(s, n) == SubSeq(s, 1, Min(n, Len(s)))

\* round(n / d) of Python 3 for integers n >= 0, d > 0: ties go to the even.
RoundHalfEven(n, d) ==
    LET qt == n \div d
        r  == n % d
    IN  IF 2 * r < d THEN qt
        ELSE IF 2 * r > d THEN qt + 1
        ELSE IF qt % 2 = 0 THEN qt ELSE qt + 1

----------------------------------------------------------------------------
(* nutrition_rag.py: build_context_from_documents, enhance_prompt_with_rag. *)
(* A document is a record with the fields name and chunks (and, when it     *)
(* comes from the uploader, content, type and size).                        *)

PerDocumentTopK == 2
ContextTopK == 3

\* The entries one document adds to all_relevant_chunks.
RECURSIVE RelevantOf(_, _)
RelevantOf(relevant, name) ==
    IF relevant = <<>> THEN <<>>
    ELSE <<[text |-> Head(relevant).chunk, document |-> name,
            score |-> Head(relevant).score]>>
         \o RelevantOf(Tail(relevant), name)

\* all_relevant_chunks after the loop over the documents.
RECURSIVE AllRelevantChunks(_, _)
AllRelevantChunks(q, docs) ==
    IF docs = <<>> THEN <<>>
    ELSE (IF Head(docs).chunks # <<>>
          THEN RelevantOf(simple_keyword_search(q, Head(docs).chunks,
                                                PerDocumentTopK),
                          Head(docs).name)
          ELSE <<>>)
         \o AllRelevantChunks(q, Tail(docs))

\* Mutant: the pool is cut to its first three entries without being sorted.
TopChunksUnsorted(q, docs) == Slice(AllRelevantChunks(q, docs), 0, ContextTopK)

\* top_chunks: the pool sorted by score, its first three entries.
TopChunks(q, docs) ==
    Slice(SortByScoreDesc(AllRelevantChunks(q, docs)), 0, ContextTopK)

\* context_parts
RECURSIVE ContextParts(_)
ContextParts(top_chunks) ==
    IF top_chunks = <<>> THEN <<>>
    ELSE <<"From " \o Head(top_chunks).document \o ":\n" \o Head(top_chunks).text>>
         \o ContextParts(Tail(top_chunks))

ContextHeader == "\n\n--- RELEVANT NUTRITION INFORMATION ---\n"
ContextFooter == "\n--- END NUTRITION INFORMATION ---\n\n"

build_context_from_documents(q, docs) ==
    IF docs = <<>> THEN ""
    ELSE IF AllRelevantChunks(q, docs) = <<>> THEN ""
    ELSE ContextHeader
         \o JoinWith(ContextParts(TopChunks(q, docs)), "\n\n")
         \o ContextFooter

enhance_prompt_with_rag(original_prompt, docs) ==
    IF docs = <<>> THEN original_prompt
    ELSE IF build_context_from_documents(original_prompt, docs) = ""
    THEN original_prompt
    ELSE "\n"
         \o build_context_from_documents(original_prompt, docs)
         \o "\n\nBased on the above nutrition information from the uploaded documents, please answer this question:\n\n"
         \o original_prompt
         \o "\n\nIf the uploaded documents contain relevant information, please reference it in your response. If the documents don't contain relevant information for this specific question, provide your general nutrition expertise.\n"

----------------------------------------------------------------------------
(* nutrition_rag.py: process_text_file, process_pdf_file, process_csv_file  *)
(* and nutrition_document_uploader.  An uploaded file is a record with name *)
(* and type, ok (whether reading, decoding or parsing it succeeds) and what *)
(* the reader extracts: text (text file), pages (PDF), columns and rows     *)
(* (CSV).  A CSV cell is <<>> when null and <<s>> when it prints as s.      *)

DefaultChunkSize == 500
DefaultOverlap == 50

process_text_file(uploaded_file) ==
    IF uploaded_file.ok THEN uploaded_file.text ELSE ""

\* text += page.extract_text() + "\n"
RECURSIVE PagesText(_)
PagesText(pages) ==
    IF pages = <<>> THEN "" ELSE Head(pages) \o "\n" \o PagesText(Tail(pages))

process_pdf_file(uploaded_file) ==
    IF uploaded_file.ok THEN PagesText(uploaded_file.pages) ELSE ""

\* row_items: "col: value" for the cells of the row that are not null.
RECURSIVE RowItems(_, _)
RowItems(columns, row) ==
    IF columns = <<>> THEN <<>>
    ELSE (IF Head(row) # <<>> THEN <<Head(columns) \o ": " \o Head(row)[1]>>
          ELSE <<>>)
         \o RowItems(Tail(columns), Tail(row))

CsvLastIndex == 99
CsvRowLimit == 100

\* The line of the row of the given index (0-based).
RowLine(columns, rows, index) ==
    "Row " \o ToString(index + 1) \o ": "
    \o JoinWith(RowItems(columns, rows[index + 1]), ", ") \o "\n"

\* The lines of the rows lo..hi, the range taken by halves.
RECURSIVE RowLines(_, _, _, _)
RowLines(columns, rows, lo, hi) ==
    IF lo > hi THEN ""
    ELSE IF lo = hi THEN RowLine(columns, rows, lo)
    ELSE RowLines(columns, rows, lo, (lo + hi) \div 2)
         \o RowLines(columns, rows, (lo + hi) \div 2 + 1, hi)

\* The loop over df.iterrows() from the row of the given index on: a line
\* per row up to the row of index 99, behind which the notice is written
\* and the loop left.
CsvRows(columns, rows, index) ==
    RowLines(columns, rows, index, Min(Len(rows) - 1, CsvLastIndex))
    \o (IF Len(rows) - 1 >= CsvLastIndex
        THEN "... and " \o ToString(Len(rows) - CsvRowLimit) \o " more rows\n"
        ELSE "")

process_csv_file(uploaded_file) ==
    IF ~uploaded_file.ok THEN ""
    ELSE "CSV Data from " \o uploaded_file.name \o ":\n\n"
         \o "Columns: " \o JoinWith(uploaded_file.columns, ", ") \o "\n\n"
         \o "Total rows: " \o ToString(Len(uploaded_file.rows)) \o "\n\n"
         \o "Data entries:\n"
         \o CsvRows(uploaded_file.columns, uploaded_file.rows, 0)

EndsWith(s, suffix) ==
    Len(s) >= Len(suffix) /\ SubSeq(s, Len(s) - Len(suffix) + 1, Len(s)) = suffix

\* The dispatch on the type of the file.
FileContent(file) ==
    IF file.type = "application/pdf" THEN process_pdf_file(file)
    ELSE IF file.type = "text/csv" \/ EndsWith(file.name, ".csv")
         THEN process_csv_file(file)
         ELSE process_text_file(file)

\* Mutant: the loop stores every file with content, seen before or not.
RECURSIVE ProcessNewFilesUnchecked(_, _)
ProcessNewFilesUnchecked(stored, uploaded_files) ==
    IF uploaded_files = <<>> THEN stored
    ELSE LET file == Head(uploaded_files)
         IN  IF FileContent(file) = ""
             THEN ProcessNewFilesUnchecked(stored, Tail(uploaded_files))
             ELSE ProcessNewFilesUnchecked(
                      Append(stored,
                             [name |-> file.name,
                              content |-> FileContent(file),
                              chunks |-> chunk_text(FileContent(file),
                                                    DefaultChunkSize, DefaultOverlap),
                              type |-> file.type,
                              size |-> Len(FileContent(file))]),
                      Tail(uploaded_files))

\* The loop over uploaded_files: a file whose name is stored is skipped, a
\* file without content is not stored.
RECURSIVE ProcessNewFiles(_, _)
ProcessNewFiles(stored, uploaded_files) ==
    IF uploaded_files = <<>> THEN stored
    ELSE LET file == Head(uploaded_files)
         IN  IF \E d \in 1..Len(stored) : stored[d].name = file.name
             THEN ProcessNewFiles(stored, Tail(uploaded_files))
             ELSE IF FileContent(file) = ""
             THEN ProcessNewFiles(stored, Tail(uploaded_files))
             ELSE ProcessNewFiles(
                      Append(stored,
                             [name |-> file.name,
                              content |-> FileContent(file),
                              chunks |-> chunk_text(FileContent(file),
                                                    DefaultChunkSize, DefaultOverlap),
                              type |-> file.type,
                              size |-> Len(FileContent(file))]),
                      Tail(uploaded_files))

\* st.session_state.nutrition_documents when nutrition_document_uploader
\* returns and the page has settled: the "Clear All Documents" button is
\* drawn only while the widget holds files; pressing it empties the list and
\* st.rerun() runs the page, and so the uploader, again with the same files
\* in the widget and the button not pressed.
nutrition_document_uploader(stored, uploaded_files, clear_pressed) ==
    IF uploaded_files = <<>> THEN stored
    ELSE IF clear_pressed THEN ProcessNewFiles(<<>>, uploaded_files)
    ELSE ProcessNewFiles(stored, uploaded_files)

----------------------------------------------------------------------------
(* app.py: get_edamam_nutrition and calculate_nutrition.                    *)
(* Calories are integers; protein, carbs, fat and the other nutrients are   *)
(* held in tenths (of a gram or milligram), the precision the code rounds   *)
(* them to.  The payload of the API holds calories in tenths and nutrient   *)
(* quantities in hundredths.                                                *)

\* data.get("totalNutrients", {}).get(k, {}).get("quantity", 0), rounded to
\* one decimal.
NutrientTenths(data, k) ==
    IF k \in DOMAIN data.totalNutrients
    THEN RoundHalfEven(data.totalNutrients[k], 10) ELSE 0

\* Mutant: the answer of the API is never used.
get_edamam_nutrition_ignored(food_item, quantity, env) == None

\* env: what the environment and the API give the single attempt:
\* has_credentials, raises (requests.get or response.json raises),
\* status_code and the JSON payload data.
get_edamam_nutrition(food_item, quantity, env) ==
    IF ~env.has_credentials THEN None
    ELSE IF env.raises THEN None
    ELSE IF env.status_code = 200 /\ env.data.calories > 0
    THEN [food |-> food_item, quantity |-> quantity,
          calories |-> RoundHalfEven(env.data.calories, 10),
          protein |-> NutrientTenths(env.data, "PROCNT"),
          carbs |-> NutrientTenths(env.data, "CHOCDF"),
          fat |-> NutrientTenths(env.data, "FAT"),
          fiber |-> NutrientTenths(env.data, "FIBTG"),
          sugar |-> NutrientTenths(env.data, "SUGAR"),
          sodium |-> NutrientTenths(env.data, "NA"),
          success |-> TRUE, source |-> "Edamam API"]
    ELSE None

\* food_db in its declared order (dict iteration order); macros in tenths.
food_db ==
    <<[key |-> "egg", calories |-> 70, protein |-> 60, carbs |-> 5, fat |-> 50],
      [key |-> "toast", calories |-> 80, protein |-> 30, carbs |-> 150, fat |-> 10],
      [key |-> "apple", calories |-> 95, protein |-> 5, carbs |-> 250, fat |-> 3],
      [key |-> "banana", calories |-> 105, protein |-> 13, carbs |-> 270, fat |-> 4],
      [key |-> "chicken breast", calories |-> 165, protein |-> 310, carbs |-> 0, fat |-> 36],
      [key |-> "chicken", calories |-> 165, protein |-> 310, carbs |-> 0, fat |-> 36],
      [key |-> "rice", calories |-> 130, protein |-> 27, carbs |-> 280, fat |-> 3],
      [key |-> "salmon", calories |-> 208, protein |-> 220, carbs |-> 0, fat |-> 120],
      [key |-> "broccoli", calories |-> 25, protein |-> 30, carbs |-> 50, fat |-> 3],
      [key |-> "bread", calories |-> 75, protein |-> 25, carbs |-> 140, fat |-> 10],
      [key |-> "pasta", calories |-> 220, protein |-> 80, carbs |-> 440, fat |-> 15],
      [key |-> "pizza", calories |-> 285, protein |-> 120, carbs |-> 360, fat |-> 100],
      [key |-> "salad", calories |-> 20, protein |-> 15, carbs |-> 40, fat |-> 2],
      [key |-> "beef", calories |-> 250, protein |-> 260, carbs |-> 0, fat |-> 170],
      [key |-> "pork", calories |-> 242, protein |-> 270, carbs |-> 0, fat |-> 140],
      [key |-> "fish", calories |-> 206, protein |-> 220, carbs |-> 0, fat |-> 120],
      [key |-> "tuna", calories |-> 154, protein |-> 250, carbs |-> 0, fat |-> 50],
      [key |-> "turkey", calories |-> 135, protein |-> 250, carbs |-> 0, fat |-> 32],
      [key |-> "cheese", calories |-> 113, protein |-> 70, carbs |-> 10, fat |-> 90],
      [key |-> "milk", calories |-> 42, protein |-> 34, carbs |-> 50, fat |-> 10],
      [key |-> "yogurt", calories |-> 59, protein |-> 100, carbs |-> 36, fat |-> 4],
      [key |-> "oatmeal", calories |-> 68, protein |-> 24, carbs |-> 120, fat |-> 14],
      [key |-> "cereal", calories |-> 379, protein |-> 80, carbs |-> 840, fat |-> 15],
      [key |-> "orange", calories |-> 47, protein |-> 9, carbs |-> 120, fat |-> 1],
      [key |-> "grape", calories |-> 69, protein |-> 6, carbs |-> 160, fat |-> 4],
      [key |-> "carrot", calories |-> 25, protein |-> 5, carbs |-> 60, fat |-> 1],
      [key |-> "potato", calories |-> 77, protein |-> 20, carbs |-> 170, fat |-> 1],
      [key |-> "tomato", calories |-> 18, protein |-> 9, carbs |-> 39, fat |-> 2],
      [key |-> "lettuce", calories |-> 5, protein |-> 5, carbs |-> 10, fat |-> 1],
      [key |-> "spinach", calories |-> 7, protein |-> 9, carbs |-> 11, fat |-> 1],
      [key |-> "burger", calories |-> 354, protein |-> 170, carbs |-> 310, fat |-> 170],
      [key |-> "sandwich", calories |-> 300, protein |-> 150, carbs |-> 350, fat |-> 120],
      [key |-> "soup", calories |-> 85, protein |-> 40, carbs |-> 120, fat |-> 25],
      [key |-> "steak", calories |-> 271, protein |-> 260, carbs |-> 0, fat |-> 190],
      [key |-> "avocado", calories |-> 234, protein |-> 29, carbs |-> 120, fat |-> 210]>>

\* The multiplier, in halves: 2 is x1, 4 is x2, 6 is x3 and 1 is x0.5.
Multiplier(food_lower, quantity) ==
    IF Contains(quantity, "2") \/ Contains(food_lower, "two") THEN 4
    ELSE IF Contains(quantity, "3") \/ Contains(food_lower, "three") THEN 6
    ELSE IF Contains(food_lower, "half") \/ Contains(quantity, "0.5") THEN 1
    ELSE 2

\* round(calories * multiplier)
ScaleCalories(cal, mult) == RoundHalfEven(cal * mult, 2)

\* round(x * 0.5, 1) in tenths for an odd number t of tenths: the product is
\* not a binary fraction, the result is what IEEE doubles give for the values
\* of the tables.
HalfOfOddTenths(t) ==
    CASE t = 1 -> 1 [] t = 3 -> 1 [] t = 5 -> 2 [] t = 9 -> 5 [] t = 11 -> 6
      [] t = 13 -> 7 [] t = 15 -> 8 [] t = 25 -> 12 [] t = 27 -> 14
      [] t = 29 -> 14 [] t = 39 -> 19
      [] OTHER -> RoundHalfEven(t, 2)

\* round(x * multiplier, 1), x and the result in tenths.
ScaleTenths(t, mult) ==
    IF mult = 1 THEN (IF t % 2 = 0 THEN t \div 2 ELSE HalfOfOddTenths(t))
    ELSE t * (mult \div 2)

\* Mutant: the last matching entry of food_db wins.
RECURSIVE LastMatch(_, _)
LastMatch(db, food_lower) ==
    IF db = <<>> THEN <<>>
    ELSE IF Contains(food_lower, db[Len(db)].key) THEN <<db[Len(db)]>>
    ELSE LastMatch(SubSeq(db, 1, Len(db) - 1), food_lower)

\* The first entry of food_db whose key is a substring of food_lower, as a
\* list of at most one entry.
RECURSIVE FirstMatch(_, _)
FirstMatch(db, food_lower) ==
    IF db = <<>> THEN <<>>
    ELSE IF Contains(food_lower, Head(db).key) THEN <<Head(db)>>
    ELSE FirstMatch(Tail(db), food_lower)

\* Mutant: the categories are tried from the last to the first.
EstimatedBaselineReversed(food_lower) ==
    IF AnyIn(food_lower, <<"bread", "pasta", "rice", "grain">>)
    THEN [calories |-> 180, protein |-> 60, carbs |-> 350, fat |-> 20]
    ELSE IF AnyIn(food_lower, <<"vegetable", "broccoli", "carrot", "spinach">>)
    THEN [calories |-> 30, protein |-> 20, carbs |-> 60, fat |-> 3]
    ELSE IF AnyIn(food_lower, <<"fruit", "apple", "orange", "berry">>)
    THEN [calories |-> 80, protein |-> 10, carbs |-> 200, fat |-> 5]
    ELSE IF AnyIn(food_lower, <<"meat", "chicken", "beef", "pork", "fish">>)
    THEN [calories |-> 200, protein |-> 250, carbs |-> 20, fat |-> 80]
    ELSE [calories |-> 150, protein |-> 80, carbs |-> 200, fat |-> 50]

\* estimated_nutrition: the baseline of the first matching category.
EstimatedBaseline(food_lower) ==
    IF AnyIn(food_lower, <<"meat", "chicken", "beef", "pork", "fish">>)
    THEN [calories |-> 200, protein |-> 250, carbs |-> 20, fat |-> 80]
    ELSE IF AnyIn(food_lower, <<"fruit", "apple", "orange", "berry">>)
    THEN [calories |-> 80, protein |-> 10, carbs |-> 200, fat |-> 5]
    ELSE IF AnyIn(food_lower, <<"vegetable", "broccoli", "carrot", "spinach">>)
    THEN [calories |-> 30, protein |-> 20, carbs |-> 60, fat |-> 3]
    ELSE IF AnyIn(food_lower, <<"bread", "pasta", "rice", "grain">>)
    THEN [calories |-> 180, protein |-> 60, carbs |-> 350, fat |-> 20]
    ELSE [calories |-> 150, protein |-> 80, carbs |-> 200, fat |-> 50]

\* The calls of requests.get one call of get_edamam_nutrition makes: none
\* without credentials, else the one before the status is looked at.
EdamamRequests(env) == IF env.has_credentials THEN 1 ELSE 0

calculate_nutrition(food_item, quantity, env) ==
    LET edamam_result == get_edamam_nutrition(food_item, quantity, env)
        food_lower    == Lower(food_item)
        mult          == Multiplier(food_lower, quantity)
        match         == FirstMatch(food_db, food_lower)
        est           == EstimatedBaseline(food_lower)
    IN  IF Truthy(edamam_result) THEN edamam_result
        ELSE IF match # <<>>
        THEN [food |-> food_item, quantity |-> quantity,
              calories |-> ScaleCalories(match[1].calories, mult),
              protein |-> ScaleTenths(match[1].protein, mult),
              carbs |-> ScaleTenths(match[1].carbs, mult),
              fat |-> ScaleTenths(match[1].fat, mult),
              success |-> TRUE, source |-> "Local Database"]
        ELSE [food |-> food_item, quantity |-> quantity,
              calories |-> ScaleCalories(est.calories, mult),
              protein |-> ScaleTenths(est.protein, mult),
              carbs |-> ScaleTenths(est.carbs, mult),
              fat |-> ScaleTenths(est.fat, mult),
              success |-> FALSE, source |-> "Estimated",
              note |-> "Estimated values based on food category"]

----------------------------------------------------------------------------
(* app.py: text_to_speech.                                                  *)

\* re.sub(mark + '.*?' + mark, '', s) for a literal mark: from the left, a
\* mark and the text up to the next mark are taken out when no line break
\* lies between the two.
RECURSIVE RemoveSpans(_, _)
RemoveSpans(s, mark) ==
    LET d == Len(mark)
        Closes(i) == {j \in (i + d)..(Len(s) - d + 1) :
                        /\ SubSeq(s, j, j + d - 1) = mark
                        /\ \A k \in (i + d)..(j - 1) : Char(s, k) # "\n"}
        opens == {i \in 1..(Len(s) - d + 1) :
                    SubSeq(s, i, i + d - 1) = mark /\ Closes(i) # {}}
    IN  IF opens = {} THEN s
        ELSE LET i == CHOOSE o \in opens : \A p \in opens : o <= p
                 j == CHOOSE c \in Closes(i) : \A e \in Closes(i) : c <= e
             IN  SubSeq(s, 1, i - 1)
                 \o RemoveSpans(SubSeq(s, j + d, Len(s)), mark)

\* re.sub('[#-]', '', s) and s.replace('\n', ' '), character by character,
\* the string taken by halves.  (The third character of the class, the
\* bullet, is not in the alphabet of the model.)
RECURSIVE CleanChars(_)
CleanChars(s) ==
    IF Len(s) = 0 THEN ""
    ELSE IF Len(s) = 1
    THEN (IF s \in {"#", "-"} THEN "" ELSE IF s = "\n" THEN " " ELSE s)
    ELSE CleanChars(SubSeq(s, 1, Len(s) \div 2))
         \o CleanChars(SubSeq(s, Len(s) \div 2 + 1, Len(s)))

SpeechTextLimit == 500
SpeechTextMinimum == 5

\* clean_text as it is passed to edge_tts.Communicate.
CleanText(s) ==
    LET stripped == Strip(CleanChars(RemoveSpans(RemoveSpans(s, "**"), "*")))
    IN  IF Len(stripped) > SpeechTextLimit
        THEN SubSeq(stripped, 1, SpeechTextLimit) \o "..."
        ELSE stripped

\* Whether text_to_speech gets as far as creating an event loop.
CreatesLoop(available, s) ==
    available /\ ~(Len(Strip(CleanText(s))) < SpeechTextMinimum)

\* asyncio.new_event_loop() with run_until_complete entered.
NewRunningLoop == [running |-> TRUE, closed |-> FALSE]

\* run_until_complete has returned and loop.close() was called.
ClosedLoop == [running |-> FALSE, closed |-> TRUE]

\* run_until_complete has raised: the loop has stopped, the except clause is
\* entered and loop.close() is passed over.
AbandonedLoop == [running |-> FALSE, closed |-> FALSE]

----------------------------------------------------------------------------
(* app.py: check_nutrition_safety.                                          *)

unsafe_patterns ==
    <<"extreme diet", "crash diet", "starvation", "no food", "skip meals",
      "fast for days", "eat nothing", "stop eating", "starve yourself",
      "severe calorie restriction", "dangerous", "harmful", "toxic",
      "poison", "laxatives", "diet pills", "weight loss pills",
      "appetite suppressants", "fat burners", "detox tea", "cleanse pills",
      "eating disorder", "anorexia", "bulimia", "binge eating", "purging",
      "vomiting", "pro ana", "pro mia", "thinspo", "skinny goals",
      "self harm", "hurt yourself", "punish yourself",
      "exercise until exhaustion", "workout punishment", "food punishment",
      "guilt eating", "cure diabetes", "cure cancer", "magic weight loss",
      "miracle diet", "lose 20 pounds in a week", "instant results",
      "no exercise needed", "sexual", "explicit", "violence", "hate",
      "discrimination", "racist", "suicide", "death", "kill", "murder">>

body_terms ==
    <<"body", "weight", "fat", "skinny", "food", "eat", "diet", "calories">>

\* The try block of stage 2, statement by statement.  clf holds what the two
\* classifiers do on the text: clf.toxicity.raises or clf.toxicity.scores
\* (toxicity_results[0], label/score pairs, scores in hundredths), and
\* clf.sentiment.raises or clf.sentiment.label and .score.  An exception ends
\* the block; what was appended before it stays.
Stage2(text_lower, clf) ==
    IF clf.toxicity.raises THEN <<>>
    ELSE LET sc == clf.toxicity.scores
         IN  IF Len(sc) > 0 /\ sc[1].label # "TOXIC" /\ Len(sc) < 2
             THEN <<>>   \* toxicity_results[0][1]: IndexError
             ELSE LET toxic ==
                          IF Len(sc) > 0
                             /\ (IF sc[1].label = "TOXIC" THEN sc[1].score
                                 ELSE sc[2].score) > 70
                          THEN <<"AI-detected toxic content">> ELSE <<>>
                  IN  IF clf.sentiment.raises THEN toxic
                      ELSE toxic \o
                           (IF /\ clf.sentiment.label = "NEGATIVE"
                               /\ clf.sentiment.score > 90
                               /\ AnyIn(text_lower, body_terms)
                            THEN <<"AI-detected harmful body/food negativity">>
                            ELSE <<>>)

\* Mutant: the length test is made on the text as given, not trimmed.
Stage2RunsUntrimmed(t, available) == available /\ Len(t) > 10

\* Whether stage 2 runs on the text.
Stage2Runs(t, available) == available /\ Len(Strip(t)) > 10

\* Mutant: the patterns are looked for in the text as given, not lower-cased.
check_nutrition_safety_case_sensitive(t, available, clf) ==
    LET flagged == ThoseIn(t, unsafe_patterns)
                   \o (IF Stage2Runs(t, available) THEN Stage2(Lower(t), clf)
                       ELSE <<>>)
    IN  [is_safe |-> Len(flagged) = 0, flagged |-> flagged]

check_nutrition_safety(t, available, clf) ==
    LET flagged == ThoseIn(Lower(t), unsafe_patterns)
                   \o (IF Stage2Runs(t, available) THEN Stage2(Lower(t), clf)
                       ELSE <<>>)
    IN  [is_safe |-> Len(flagged) = 0, flagged |-> flagged]

----------------------------------------------------------------------------
(* app.py: extract_nutrition_data and filter_recipe_for_user_safety.        *)

Digits == {"0", "1", "2", "3", "4", "5", "6", "7", "8", "9"}

HasDigit(t) == \E i \in 1..Len(t) : Char(t, i) \in Digits

\* Every pattern of extract_nutrition_data needs a run of digits (\d+), so on
\* a text without digits no pattern matches and the four defaults are
\* returned (macros in tenths).  The texts of the model hold no digit.
extract_nutrition_data(t) ==
    [calories |-> 200, protein |-> 100, carbs |-> 250, fat |-> 80,
     source |-> "Extracted from AI response"]

\* [x.strip().lower() for x in xs]
RECURSIVE StripLowerAll(_)
StripLowerAll(xs) ==
    IF xs = <<>> THEN <<>>
    ELSE <<Lower(Strip(Head(xs)))>> \o StripLowerAll(Tail(xs))

\* Emoji of the messages are written as [name].
AllergyDisclaimer ==
    "\n\n[alert] **Please consult with a healthcare provider before consuming foods you're allergic to.**"

\* The mistake of letting an unpreferred food decide the verdict as well.
RecipeIsSafeNothingDetected(detected_allergens, detected_unpreferred) ==
    detected_allergens = <<>> /\ detected_unpreferred = <<>>

\* is_safe: true until an allergy is found in the recipe.
RecipeIsSafe(detected_allergens, detected_unpreferred) ==
    detected_allergens = <<>>

\* The mistake of putting the warnings behind the recipe.
FilteredContentAppended(recipe_text, warnings, is_safe) ==
    IF warnings # <<>>
    THEN recipe_text \o "\n\n" \o JoinWith(warnings, "\n")
         \o (IF ~is_safe THEN AllergyDisclaimer ELSE "")
    ELSE recipe_text

\* filtered_content: the warnings, the disclaimer when an allergy was found,
\* and the recipe text behind them.
FilteredContent(recipe_text, warnings, is_safe) ==
    IF warnings # <<>>
    THEN LET warning_text ==
                 "\n\n" \o JoinWith(warnings, "\n")
                 \o (IF ~is_safe THEN AllergyDisclaimer ELSE "")
         IN  warning_text \o "\n\n" \o recipe_text
    ELSE recipe_text

filter_recipe_for_user_safety(recipe_text, user_allergies_str, unpreferred_foods_list) ==
    LET user_allergies ==
            IF user_allergies_str # ""
            THEN StripLowerAll(SplitOn(user_allergies_str, ","))
            ELSE <<>>
        unpreferred_foods == StripLowerAll(unpreferred_foods_list)
        recipe_lower == Lower(recipe_text)
        detected_allergens == ThoseIn(recipe_lower, user_allergies)
        detected_unpreferred == ThoseIn(recipe_lower, unpreferred_foods)
        is_safe == RecipeIsSafe(detected_allergens, detected_unpreferred)
        warnings ==
            (IF detected_allergens # <<>>
             THEN <<"[warning] **ALLERGY WARNING**: This recipe contains: "
                    \o JoinWith(detected_allergens, ", ")>>
             ELSE <<>>)
            \o
            (IF detected_unpreferred # <<>>
             THEN <<"[info] **Note**: This recipe contains foods you prefer to avoid: "
                    \o JoinWith(detected_unpreferred, ", ")>>
             ELSE <<>>)
    IN  [is_safe |-> is_safe,
         filtered_content |-> FilteredContent(recipe_text, warnings, is_safe),
         warnings |-> warnings]

----------------------------------------------------------------------------
(* app.py: process_nutrition_request.                                       *)

\* The fixed texts of the handler.
FlaggedResponse == "Content flagged for safety and blocked"
NoResponseApology == "Sorry, I couldn't generate a response. Please try again."
ExceptionApology == "Sorry, there was an issue processing your request. Please try again."

calculator_keywords ==
    <<"calorie", "calories", "nutrition", "macro", "protein", "carb", "fat",
      "ate", "eating", "food">>

detect_food_keywords ==
    <<"egg", "toast", "apple", "banana", "chicken", "rice", "salmon",
      "broccoli", "bread", "pasta", "pizza", "salad", "beef", "pork", "fish",
      "tuna", "turkey", "cheese", "milk", "yogurt", "oatmeal", "cereal",
      "orange", "grape", "carrot", "potato", "tomato", "lettuce", "spinach",
      "burger", "sandwich", "soup", "steak", "avocado">>

recipe_keywords ==
    <<"recipe", "ingredients", "meal plan", "breakfast", "lunch", "dinner">>

meal_log_keywords ==
    <<"ate", "meal", "breakfast", "lunch", "dinner", "snack", "food", "eating",
      "consumed", "had", "calories", "nutrition", "protein", "carbs", "fat",
      "drink", "beverage", "recipe", "ingredient", "cooking", "cooked",
      "prepared", "portion", "serving">>

\* The parameters filter_recipe_for_user_safety requires, and the arguments
\* the call after the two generation branches passes.
FilterRequiredArgs == 3
FilterArgsPassedAfterBranches == 1

\* Mutant: the call after the branches passes all three arguments.
FilterCallAfterBranchesPassesAll == FALSE

\* The call filter_recipe_for_user_safety(response_text) raises TypeError.
FilterCallAfterBranchesRaises == FilterArgsPassedAfterBranches # FilterRequiredArgs

\* should_calculate
ShouldCalculate(prompt_to_use, request_type) ==
    request_type = "image" \/ AnyIn(Lower(prompt_to_use), calculator_keywords)

\* Whether the handler calls calculate_nutrition.
CalculatorRuns(prompt_to_use, request_type) ==
    enable_nutrition_calculator /\ ShouldCalculate(prompt_to_use, request_type)

\* food_item: the first detected food, or the generic description (image)
\* or the first 100 characters of the prompt, cleaned up.
FoodItem(prompt_to_use, request_type) ==
    LET detected_foods == ThoseIn(Lower(prompt_to_use), detect_food_keywords)
        first == IF detected_foods # <<>> THEN detected_foods[1]
                 ELSE IF request_type = "image" THEN "pasta dish with sauce"
                 ELSE Prefix(Strip(prompt_to_use), 100)
    IN  Strip(Remove(Remove(Remove(first, "what are the nutrition facts for"),
                            "calories in"), "nutrition info for"))

\* s[:n] + "..." if len(s) > n else s
Ellipsis(t, n) == IF Len(t) > n THEN Prefix(t, n) \o "..." ELSE t

\* A chat_history record (persona, temperature and timestamp left out).
ChatEntry(prompt_to_use, response, function_result, extracted, request_type) ==
    [prompt |-> prompt_to_use, response |-> response,
     function_result |-> function_result, nutrition_data |-> extracted,
     has_image |-> request_type = "image", request_type |-> request_type]

\* The concatenation of the text fragments of a response.
RECURSIVE Concat(_)
Concat(frags) == IF frags = <<>> THEN "" ELSE Head(frags) \o Concat(Tail(frags))

\* Mutant: the flagged branch does not return, the request goes on to the
\* generation service and the meal log.
FlaggedBranchFallsThrough(prompt_to_use, request_type, flagged_terms) ==
    /\ chat_history' = Append(chat_history,
           ChatEntry(prompt_to_use, FlaggedResponse, None, None, request_type))
    /\ displayed' = <<>>
    /\ last_request' = [flagged |-> flagged_terms, gen |-> "not called",
                        text |-> "", outcome |-> "blocked"]
    /\ gen_calls' = gen_calls + 1
    /\ meal_log' = Append(meal_log,
           [food |-> prompt_to_use, nutrition |-> EmptyDict, ai_advice |-> ""])
    /\ UNCHANGED <<nutrition_data, latest_ai_response, clear_image, calc_calls>>

\* Mutant: the raw prompt, not the augmented one, goes into the text sent.
EnhancedPromptRaw(prompt_to_use, docs) == prompt_to_use

\* enhanced_prompt of the handler.
EnhancedPrompt(prompt_to_use, docs) ==
    IF docs # <<>> THEN enhance_prompt_with_rag(prompt_to_use, docs)
    ELSE prompt_to_use

\* context_prompt of the handler.  The lines of the profile fields that the
\* model does not hold (age, gender, weight, height, activity level, goal,
\* health issues) and the two fixed instruction paragraphs are left out.
ContextPrompt(profile, enhanced) ==
    "\n    User Profile Context:\n"
    \o "    - Allergies: "
    \o (IF profile.allergies # "" THEN profile.allergies ELSE "None") \o "\n"
    \o "    - Unpreferred Foods: "
    \o (IF profile.unpreferred_foods # <<>>
        THEN JoinWith(profile.unpreferred_foods, ", ") ELSE "None") \o "\n"
    \o "    \n    Enhanced User Question: " \o enhanced \o "\n    \n"

\* What generate_nutrition_response passes to the model: prompt + nutrition_context.
GenerationText(prompt) ==
    prompt \o "\n\nRemember: Always prioritize health and safety. If unsure about medical conditions, recommend consulting healthcare professionals."

\* The branch of a flagged prompt: one record, then return.
FlaggedBranch(prompt_to_use, request_type, flagged_terms) ==
    /\ chat_history' = Append(chat_history,
           ChatEntry(prompt_to_use, FlaggedResponse, None, None, request_type))
    /\ displayed' = <<>>
    /\ last_request' = [flagged |-> flagged_terms, gen |-> "not called",
                        text |-> "", outcome |-> "blocked"]
    /\ UNCHANGED <<meal_log, nutrition_data, latest_ai_response, clear_image,
                   gen_calls, calc_calls>>

\* Mutant: the except clause swallows the exception without a record.
ExceptClauseSilent(prompt_to_use, request_type, gen) ==
    /\ chat_history' = chat_history
    /\ last_request' = [flagged |-> <<>>, gen |-> gen.kind,
                        text |-> Concat(gen.frags), outcome |-> "exception"]
    /\ UNCHANGED <<meal_log, nutrition_data, clear_image>>

\* The except clause: the placeholder record is saved.
ExceptClause(prompt_to_use, request_type, gen) ==
    /\ chat_history' = Append(chat_history,
           ChatEntry(prompt_to_use, ExceptionApology, None, None, request_type))
    /\ last_request' = [flagged |-> <<>>, gen |-> gen.kind,
                        text |-> Concat(gen.frags), outcome |-> "exception"]
    /\ UNCHANGED <<meal_log, nutrition_data, clear_image>>

\* The try block and its except clause.  gen is what the generation service
\* does: kind "none" (generate_nutrition_response caught an exception and
\* returned None), "raise" (iterating the stream, after the fragments
\* gen.frags, or reading response.text raises) or "ok" (the text arrives, as
\* the fragments gen.frags when streaming).
TryBlock(prompt_to_use, request_type, function_result, gen) ==
    LET has_image == request_type = "image"
        received == Concat(gen.frags)
        \* response_text when the branches are left without an exception
        response_text ==
            IF gen.kind = "none"
            THEN (IF enable_streaming THEN "" ELSE NoResponseApology)
            ELSE received
        has_recipe == AnyIn(Lower(response_text), recipe_keywords)
        filtered == filter_recipe_for_user_safety(
                        response_text, user_profile.allergies,
                        user_profile.unpreferred_foods)
        \* the response area and latest_ai_response after the branches
        shown ==
            IF enable_streaming
            THEN (IF gen.kind = "none" \/ gen.frags = <<>> THEN <<>>
                  ELSE IF gen.kind = "ok" /\ has_recipe
                  THEN <<filtered.filtered_content>>
                  ELSE <<received>>)
            ELSE (IF gen.kind = "raise" THEN <<>> ELSE <<response_text>>)
        latest ==
            IF gen.kind # "ok" THEN latest_ai_response
            ELSE IF enable_streaming /\ has_recipe
            THEN <<filtered.filtered_content>>
            ELSE <<response_text>>
        raised ==
            \/ gen.kind = "raise"
            \/ /\ response_text # "" /\ has_recipe
               /\ FilterCallAfterBranchesRaises
        extracted == IF response_text # ""
                     THEN extract_nutrition_data(response_text) ELSE EmptyDict
        final_response == response_text
        has_food_keywords == AnyIn(Lower(prompt_to_use), meal_log_keywords)
        has_nutrition_data == Truthy(function_result) \/ Truthy(extracted)
        meal_entry ==
            [food |-> Ellipsis(prompt_to_use, 100),
             nutrition |-> IF Truthy(function_result) THEN function_result
                           ELSE extracted,
             ai_advice |-> Ellipsis(final_response, 200)]
    IN  /\ gen_calls' = gen_calls + 1
        /\ displayed' = shown
        /\ latest_ai_response' = latest
        /\ IF raised
           THEN ExceptClause(prompt_to_use, request_type, gen)
           ELSE /\ nutrition_data' =
                       IF Truthy(function_result)
                       THEN Append(nutrition_data, function_result)
                       ELSE nutrition_data
                /\ chat_history' = Append(chat_history,
                       ChatEntry(prompt_to_use, final_response, function_result,
                                 extracted, request_type))
                /\ meal_log' =
                       IF enable_meal_logging
                          /\ (has_image \/ has_food_keywords \/ has_nutrition_data)
                       THEN Append(meal_log, meal_entry) ELSE meal_log
                /\ clear_image' = (clear_image \/ has_image)
                /\ last_request' = [flagged |-> <<>>, gen |-> gen.kind,
                                    text |-> received, outcome |-> "answered"]

----------------------------------------------------------------------------
(* The session: what the user and the services can do.                      *)

Prompts == {"hi there", "calories in two eggs", "how to stop eating"}

Profiles ==
    {[allergies |-> "", unpreferred_foods |-> <<>>],
     [allergies |-> "peanut", unpreferred_foods |-> <<"fish">>]}

\* The fragments in which the generation service delivers a response; texts
\* without digits, the ones extract_nutrition_data is modelled on.
Responses ==
    {f \in {<<"Eat more ", "greens daily.">>,
             <<"Recipe: pea", "nut sauce with rice">>,
             <<"For lunch try ", "grilled fish.">>} : ~HasDigit(Concat(f))}

\* What the generation service can do on one call.
GenOutcomes ==
    {[kind |-> "none", frags |-> <<>>]}
    \cup {[kind |-> "ok", frags |-> f] : f \in Responses}
    \cup (IF enable_streaming
          THEN {[kind |-> "raise", frags |-> SubSeq(f, 1, k)] :
                    f \in Responses, k \in 0..1}
          ELSE {[kind |-> "raise", frags |-> <<>>]})

\* What the two classifiers can do on one text.
ToxicityOutcomes ==
    {[raises |-> TRUE, scores |-> <<>>],
     [raises |-> FALSE,
      scores |-> <<[label |-> "TOXIC", score |-> 80],
                   [label |-> "NON_TOXIC", score |-> 20]>>],
     [raises |-> FALSE,
      scores |-> <<[label |-> "NON_TOXIC", score |-> 90],
                   [label |-> "TOXIC", score |-> 10]>>]}

SentimentOutcomes ==
    {[raises |-> TRUE, label |-> "", score |-> 0],
     [raises |-> FALSE, label |-> "NEGATIVE", score |-> 95],
     [raises |-> FALSE, label |-> "POSITIVE", score |-> 95]}

ClassifierOutcomes ==
    {[toxicity |-> t, sentiment |-> sn] :
        t \in ToxicityOutcomes, sn \in SentimentOutcomes}

NoClassifier ==
    [toxicity |-> [raises |-> TRUE, scores |-> <<>>],
     sentiment |-> [raises |-> TRUE, label |-> "", score |-> 0]]

\* What the nutrition API can do on one attempt.
ApiUnavailable ==
    [has_credentials |-> FALSE, raises |-> FALSE, status_code |-> 0,
     data |-> [calories |-> 0, totalNutrients |-> <<>>]]

ApiEnvs ==
    {ApiUnavailable,
     [has_credentials |-> TRUE, raises |-> FALSE, status_code |-> 200,
      data |-> [calories |-> 1546,
                totalNutrients |-> [k \in {"PROCNT", "FAT"} |->
                                       IF k = "PROCNT" THEN 1263 ELSE 1048]]]}

NoRequest ==
    [flagged |-> <<>>, gen |-> "not called", text |-> "", outcome |-> "none"]

\* The settings and the stores of a session in which nothing was asked.
SettingsIdle ==
    /\ enable_streaming = FALSE
    /\ enable_nutrition_calculator = FALSE
    /\ enable_meal_logging = FALSE

StoresIdle ==
    /\ chat_history = <<>>
    /\ meal_log = <<>>
    /\ nutrition_data = <<>>
    /\ latest_ai_response = <<>>
    /\ clear_image = FALSE
    /\ nutrition_documents = <<>>
    /\ displayed = <<>>
    /\ sent_prompt = <<>>
    /\ gen_calls = 0
    /\ calc_calls = 0
    /\ requests = 0
    /\ last_request = NoRequest

SessionIdle ==
    /\ SENTIMENT_AVAILABLE = FALSE
    /\ user_profile = [allergies |-> "", unpreferred_foods |-> <<>>]
    /\ SettingsIdle
    /\ StoresIdle

\* initialize_session_state, the sidebar settings and the profile the user
\* has entered.
Init ==
    /\ pc = "session"
    /\ SENTIMENT_AVAILABLE \in BOOLEAN
    /\ user_profile \in Profiles
    /\ enable_streaming \in BOOLEAN
    /\ enable_nutrition_calculator \in BOOLEAN
    /\ enable_meal_logging \in BOOLEAN
    /\ chat_history = <<>>
    /\ meal_log = <<>>
    /\ nutrition_data = <<>>
    /\ latest_ai_response = <<>>
    /\ clear_image = FALSE
    /\ nutrition_documents = <<>>
    /\ displayed = <<>>
    /\ sent_prompt = <<>>
    /\ gen_calls = 0
    /\ calc_calls = 0
    /\ requests = 0
    /\ last_request = NoRequest
    /\ ChunkIdle
    /\ SearchIdle
    /\ RagIdle
    /\ SafetyIdle
    /\ FilterIdle
    /\ SpeechIdle
    /\ CsvIdle
    /\ UploadIdle
    /\ CalcIdle

\* One call of process_nutrition_request, from a text question or from an
\* image analysis.
ProcessNutritionRequest ==
    /\ pc = "session"
    /\ requests < MaxRequests
    /\ requests' = requests + 1
    /\ \E prompt_to_use \in Prompts, request_type \in {"text", "image"} :
       \E clf \in (IF Stage2Runs(prompt_to_use, SENTIMENT_AVAILABLE)
                   THEN ClassifierOutcomes ELSE {NoClassifier}) :
          IF ~check_nutrition_safety(prompt_to_use, SENTIMENT_AVAILABLE, clf).is_safe
          THEN /\ FlaggedBranch(prompt_to_use, request_type,
                      check_nutrition_safety(prompt_to_use, SENTIMENT_AVAILABLE,
                                             clf).flagged)
               /\ UNCHANGED sent_prompt
          ELSE \E env \in (IF CalculatorRuns(prompt_to_use, request_type)
                          THEN ApiEnvs ELSE {ApiUnavailable}),
                  gen \in GenOutcomes :
                 /\ calc_calls' = IF CalculatorRuns(prompt_to_use, request_type)
                                  THEN calc_calls + 1 ELSE calc_calls
                 /\ sent_prompt' =
                        <<GenerationText(ContextPrompt(user_profile,
                              EnhancedPrompt(prompt_to_use, nutrition_documents)))>>
                 /\ TryBlock(prompt_to_use, request_type,
                        IF CalculatorRuns(prompt_to_use, request_type)
                        THEN calculate_nutrition(
                                 FoodItem(prompt_to_use, request_type),
                                 "1 serving", env)
                        ELSE None,
                        gen)
    /\ UNCHANGED <<pc, chunkVars, searchVars, ragVars, safetyVars,
                   filterVars, configVars,
                   speechVars, csvVars, uploadVars, calcVars,
                   nutrition_documents>>

Next == ProcessNutritionRequest

Spec == Init /\ [][Next]_vars

----------------------------------------------------------------------------
(* The session with the knowledge base: documents are uploaded and cleared  *)
(* between the requests.  The classifiers, the calculator and the meal log  *)
(* are off.                                                                 *)

\* The files the upload widget can hold.
NotesFile ==
    [name |-> "notes.txt", type |-> "text/plain", ok |-> TRUE,
     text |-> "eggs are rich in protein"]

ScanFile ==
    [name |-> "scan.pdf", type |-> "application/pdf", ok |-> FALSE, pages |-> <<>>]

LogFile ==
    [name |-> "log.csv", type |-> "application/vnd.ms-excel", ok |-> TRUE,
     columns |-> <<"food", "kcal">>,
     rows |-> << << <<"egg">>, <<"70">> >>, << <<"tea">>, <<>> >> >>]

WidgetFiles == {<<>>, <<NotesFile>>, <<ScanFile>>, <<NotesFile, LogFile>>}

\* One run of the page with the document uploader on it.
NutritionDocumentUploader ==
    /\ pc = "session"
    /\ \E uploaded_files \in WidgetFiles, clear_pressed \in BOOLEAN :
          nutrition_documents' =
              nutrition_document_uploader(nutrition_documents, uploaded_files,
                                          clear_pressed)
    /\ UNCHANGED <<pc, chunkVars, searchVars, ragVars, safetyVars,
                   filterVars, configVars, speechVars,
                   csvVars, uploadVars, calcVars, chat_history,
                   meal_log, nutrition_data, latest_ai_response, clear_image,
                   displayed, sent_prompt, gen_calls, calc_calls, requests,
                   last_request>>

InitDocs ==
    /\ Init
    /\ ~SENTIMENT_AVAILABLE
    /\ ~enable_nutrition_calculator
    /\ ~enable_meal_logging

NextDocs == ProcessNutritionRequest \/ NutritionDocumentUploader

SpecDocs == InitDocs /\ [][NextDocs]_vars

----------------------------------------------------------------------------
(* The chunker under study: inputs drawn from bounded sets, one call.       *)

Alphabet == {"a", "b", " "}
Texts == StrsUpTo(Alphabet, MaxTextLen)

InitChunk ==
    /\ pc = "chunk_call"
    /\ text \in Texts
    /\ chunk_size \in 1..MaxChunkSize
    /\ overlap \in 0..(chunk_size - 1)
    /\ chunks = <<>>
    /\ SearchIdle
    /\ SessionIdle
    /\ RagIdle
    /\ SafetyIdle
    /\ FilterIdle
    /\ SpeechIdle
    /\ CsvIdle
    /\ UploadIdle
    /\ CalcIdle

ChunkText ==
    /\ pc = "chunk_call"
    /\ chunks' = chunk_text(text, chunk_size, overlap)
    /\ pc' = "chunk_done"
    /\ UNCHANGED <<text, chunk_size, overlap, searchVars, ragVars, safetyVars,
                   filterVars, configVars,
                   speechVars, csvVars, uploadVars, calcVars,
                   sessionVars>>

NextChunk == ChunkText

SpecChunk == InitChunk /\ [][NextChunk]_vars

----------------------------------------------------------------------------
(* Properties of the chunker.                                               *)

ChunkDone == pc = "chunk_done"

\* W: the number of whitespace-delimited words of the text.
W == Len(Split(text))

\* ceil(a / b) for a >= 0, b > 0.
CeilDiv(a, b) == (a + b - 1) \div b

\* The words of the k-th returned chunk.
ChunkWords(k) == Split(chunks[k])

\* C5: a text with at least one word and fewer words than chunk_size yields
\* exactly one chunk, and that chunk holds all the words of the text.
C5_ShortTextOneChunk ==
    (ChunkDone /\ W >= 1 /\ W < chunk_size)
        => (Len(chunks) = 1 /\ ChunkWords(1) = Split(text))

RECURSIVE Reconstruct(_, _)
Reconstruct(k, covered) ==
    IF k > Len(chunks) THEN <<>>
    ELSE LET ws    == ChunkWords(k)
             start == (k - 1) * (chunk_size - overlap)
             skip  == Max(covered - start, 0)
         IN  SubSeq(ws, skip + 1, Len(ws))
             \o Reconstruct(k + 1, Max(covered, start + Len(ws)))

\* C7: the de-overlapped concatenation of the chunks is exactly the
\* whitespace-split token sequence of the text, nothing lost or reordered.
C7_CoversEveryWord ==
    ChunkDone => Reconstruct(1, 0) = Split(text)

C7_Witness ==
    /\ ChunkDone /\ overlap >= 1 /\ Len(chunks) >= 2
    /\ \E i, j \in 1..W : Split(text)[i] # Split(text)[j]

\* C8: the last O words of chunk i are the first O words of chunk i+1, for
\* every pair of consecutive chunks.
C8_ConsecutiveShareOverlap ==
    ChunkDone =>
        \A i \in 1..(Len(chunks) - 1) :
            LET a == ChunkWords(i)
                b == ChunkWords(i + 1)
            IN  /\ Len(a) >= overlap
                /\ Len(b) >= overlap
                /\ SubSeq(a, Len(a) - overlap + 1, Len(a)) = SubSeq(b, 1, overlap)

\* C9: every chunk is non-empty after trimming and has at most chunk_size
\* words, and every chunk but the last has exactly chunk_size words.
C9_OnlyLastChunkShort ==
    ChunkDone =>
        \A k \in 1..Len(chunks) :
            /\ Strip(chunks[k]) # ""
            /\ Len(ChunkWords(k)) <= chunk_size
            /\ (k < Len(chunks) => Len(ChunkWords(k)) = chunk_size)

----------------------------------------------------------------------------
(* The scoring of one chunk under study: simple_keyword_search is called    *)
(* with its default top_k on a single chunk.                                *)

SearchAlphabet == {"a", "b", "A", " "}
Queries == StrsUpTo(SearchAlphabet, MaxQueryLen)

\* Chunks as chunk_text produces them: non-empty, words joined by one space.
ChunkTexts ==
    {c \in StrsUpTo(SearchAlphabet, MaxChunkLen) : c # "" /\ Join(Split(c)) = c}

InitScore ==
    /\ pc = "score_call"
    /\ query \in Queries
    /\ search_chunks \in {<<c>> : c \in ChunkTexts}
    /\ top_k = DefaultTopK
    /\ results = <<>>
    /\ ChunkIdle
    /\ SessionIdle
    /\ RagIdle
    /\ SafetyIdle
    /\ FilterIdle
    /\ SpeechIdle
    /\ CsvIdle
    /\ UploadIdle
    /\ CalcIdle

ScoreChunk ==
    /\ pc = "score_call"
    /\ results' = simple_keyword_search(query, search_chunks, top_k)
    /\ pc' = "score_done"
    /\ UNCHANGED <<query, search_chunks, top_k, chunkVars, ragVars, safetyVars,
                   filterVars, configVars,
                   speechVars, csvVars, uploadVars, calcVars,
                   sessionVars>>

NextScore == ScoreChunk

SpecScore == InitScore /\ [][NextScore]_vars

ScoreDone == pc = "score_done"

\* The positions at which tok occurs in s.
MatchPositions(s, tok) ==
    {i \in 1..(Len(s) - Len(tok) + 1) : SubSeq(s, i, i + Len(tok) - 1) = tok}

\* The number of non-overlapping occurrences of tok in s: the size of a
\* largest set of occurrences no two of which share a character.
NonOverlappingOccurrences(s, tok) ==
    LET packings == {P \in SUBSET MatchPositions(s, tok) :
                        \A i, j \in P : i # j => (i - j >= Len(tok) \/ j - i >= Len(tok))}
    IN  CHOOSE n \in 0..Len(s) :
            /\ \E P \in packings : Cardinality(P) = n
            /\ \A P \in packings : Cardinality(P) <= n

RECURSIVE TokenHits(_, _)
TokenHits(tokens, s) ==
    IF tokens = <<>> THEN 0
    ELSE NonOverlappingOccurrences(s, Head(tokens)) + TokenHits(Tail(tokens), s)

HasQueryVerbatim == Contains(Lower(search_chunks[1]), Lower(query))

ClaimedScore ==
    TokenHits(Split(Lower(query)), Lower(search_chunks[1]))
    + (IF HasQueryVerbatim THEN 5 ELSE 0)

\* C10: the score of a chunk is the sum over the whitespace-separated tokens
\* of the lower-cased query of the token's non-overlapping occurrences in the
\* lower-cased chunk, plus 5 if the lower-cased query is a substring of it; a
\* chunk holding the query verbatim scores at least 5 plus its token hits.
C10_ScoreFormula ==
    ScoreDone =>
        /\ results = IF ClaimedScore > 0
                     THEN <<[chunk |-> search_chunks[1], score |-> ClaimedScore,
                             index |-> 0]>>
                     ELSE <<>>
        /\ HasQueryVerbatim =>
               /\ Len(results) = 1
               /\ results[1].score
                      >= 5 + TokenHits(Split(Lower(query)), Lower(search_chunks[1]))

\* A query with an upper-case letter and a token that overlaps itself in the
\* chunk, the query itself being a substring of the chunk.
C10_Witness ==
    /\ ScoreDone
    /\ query = "Aa"
    /\ search_chunks = <<"aaaa">>
    /\ results[1].score = 7

----------------------------------------------------------------------------
(* The retriever under study: simple_keyword_search is called once on a     *)
(* list of chunks with some top_k.                                          *)

SampleQueries == {"", "a", "a b", "B a", "d"}
SampleChunks == {"a", "b", "a a", "a b", "b A", "c"}

RECURSIVE SeqsUpTo(_, _)
SeqsUpTo(S, n) ==
    IF n = 0 THEN {<<>>}
    ELSE SeqsUpTo(S, n - 1)
         \cup {Append(sq, x) : sq \in {t \in SeqsUpTo(S, n - 1) : Len(t) = n - 1},
                               x \in S}

InitSearch ==
    /\ pc = "search_call"
    /\ query \in SampleQueries
    /\ search_chunks \in SeqsUpTo(SampleChunks, MaxChunks)
    /\ top_k \in 0..MaxTopK
    /\ results = <<>>
    /\ ChunkIdle
    /\ SessionIdle
    /\ RagIdle
    /\ SafetyIdle
    /\ FilterIdle
    /\ SpeechIdle
    /\ CsvIdle
    /\ UploadIdle
    /\ CalcIdle

KeywordSearch ==
    /\ pc = "search_call"
    /\ results' = simple_keyword_search(query, search_chunks, top_k)
    /\ pc' = "search_done"
    /\ UNCHANGED <<query, search_chunks, top_k, chunkVars, ragVars, safetyVars,
                   filterVars, configVars,
                   speechVars, csvVars, uploadVars, calcVars,
                   sessionVars>>

NextSearch == KeywordSearch

SpecSearch == InitSearch /\ [][NextSearch]_vars

----------------------------------------------------------------------------
(* Properties of the retriever.                                             *)

SearchDone == pc = "search_done"

\* The chunk holds no token of the query and not the query itself.
NoOverlapWithQuery(q, c) ==
    /\ \A n \in 1..Len(Split(Lower(q))) : ~Contains(Lower(c), Split(Lower(q))[n])
    /\ ~Contains(Lower(c), Lower(q))

\* C11: no returned entry has score 0, and a chunk that holds no query token
\* and not the query as a substring is absent from the results, for every
\* top_k and however few chunks match.
C11_NoZeroScoreResult ==
    SearchDone =>
        /\ \A n \in 1..Len(results) :
              /\ results[n].score > 0
              /\ results[n].index + 1 \in 1..Len(search_chunks)
              /\ ~NoOverlapWithQuery(query, search_chunks[results[n].index + 1])
        /\ \A i \in 1..Len(search_chunks) :
              NoOverlapWithQuery(query, search_chunks[i])
                  => \A n \in 1..Len(results) : results[n].index # i - 1

\* Fewer chunks match than top_k asks for, and the chunk without a match is
\* not used to fill the result.
C11_Witness ==
    /\ SearchDone
    /\ query = "a" /\ search_chunks = <<"c", "a">> /\ top_k = 3
    /\ Len(results) = 1 /\ results[1].index = 1

\* The chunks (1-based positions) with a non-zero score.
Matching == {i \in 1..Len(search_chunks) : ChunkScore(query, search_chunks[i]) > 0}

\* Chunk i is ranked before chunk j: higher score, or equal score and earlier.
RankedBefore(i, j) ==
    \/ ChunkScore(query, search_chunks[i]) > ChunkScore(query, search_chunks[j])
    \/ /\ ChunkScore(query, search_chunks[i]) = ChunkScore(query, search_chunks[j])
       /\ i < j

Rank(i) == Cardinality({j \in Matching : RankedBefore(j, i)}) + 1

\* C12: the result holds the min(top_k, matching) best-ranked chunks of
\* non-zero score, the n-th entry being the chunk of rank n, where a chunk
\* ranks before another if its score is higher or, the scores being equal,
\* if it comes earlier in the list; so scores never increase, equal scores
\* keep chunk order, and ties at the cut are decided by chunk order.
C12_TopKStableOrder ==
    SearchDone =>
        /\ Len(results) = Min(top_k, Cardinality(Matching))
        /\ Len(results) <= top_k
        /\ \A n \in 1..Len(results) :
              \E i \in Matching :
                  /\ Rank(i) = n
                  /\ results[n] = [chunk |-> search_chunks[i],
                                   score |-> ChunkScore(query, search_chunks[i]),
                                   index |-> i - 1]
        /\ \A n \in 1..(Len(results) - 1) :
              \/ results[n].score > results[n + 1].score
              \/ /\ results[n].score = results[n + 1].score
                 /\ results[n].index < results[n + 1].index

\* Two chunks of score 1 compete for the last place: the earlier one gets it.
C12_Witness ==
    /\ SearchDone
    /\ query = "a" /\ search_chunks = <<"a", "b A", "a a">> /\ top_k = 2
    /\ Len(results) = 2
    /\ results[1].index = 2 /\ results[2].index = 0

----------------------------------------------------------------------------
(* The context builder under study: build_context_from_documents or        *)
(* enhance_prompt_with_rag is called once on a list of documents.           *)

\* The chunk lists of the documents: none, one without a match, ties, more
\* matches than a document may contribute.
SampleChunkLists ==
    {<<>>, <<"c">>, <<"a", "a a", "a">>, <<"a b", "b">>, <<"b A", "a b", "a a">>}

\* Stored documents have distinct names.
DocName(i) == "d" \o ToString(i) \o ".txt"

SampleDocuments ==
    UNION {{[i \in 1..n |-> [name |-> DocName(i), chunks |-> cl[i]]] :
                cl \in [1..n -> SampleChunkLists]} : n \in 0..MaxDocs}

InitContext ==
    /\ pc = "rag_call"
    /\ query \in SampleQueries
    /\ documents \in SampleDocuments
    /\ context = ""
    /\ enhanced_prompt = ""
    /\ search_chunks = <<>> /\ top_k = 0 /\ results = <<>>
    /\ ChunkIdle
    /\ SessionIdle
    /\ SafetyIdle
    /\ FilterIdle
    /\ SpeechIdle
    /\ CsvIdle
    /\ UploadIdle
    /\ CalcIdle

BuildContext ==
    /\ pc = "rag_call"
    /\ context' = build_context_from_documents(query, documents)
    /\ pc' = "context_done"
    /\ UNCHANGED <<documents, enhanced_prompt, chunkVars, searchVars, safetyVars,
                   filterVars, configVars, speechVars,
                   csvVars, uploadVars, calcVars, sessionVars>>

EnhancePrompt ==
    /\ pc = "rag_call"
    /\ enhanced_prompt' = enhance_prompt_with_rag(query, documents)
    /\ pc' = "enhance_done"
    /\ UNCHANGED <<documents, context, chunkVars, searchVars, safetyVars,
                   filterVars, configVars, speechVars,
                   csvVars, uploadVars, calcVars, sessionVars>>

NextContext == BuildContext \/ EnhancePrompt

SpecContext == InitContext /\ [][NextContext]_vars

----------------------------------------------------------------------------
(* Properties of the context builder.                                       *)

ContextDone == pc = "context_done"

\* The pool: <<d, n>> is the n-th retriever result (top 2) of document d.
Pool ==
    {<<d, n>> \in (1..Len(documents)) \X (1..2) :
        n <= Len(simple_keyword_search(query, documents[d].chunks, 2))}

PoolScore(e) == simple_keyword_search(query, documents[e[1]].chunks, 2)[e[2]].score
PoolText(e) == simple_keyword_search(query, documents[e[1]].chunks, 2)[e[2]].chunk

\* Pool order: document order, then the order of the retriever's results.
PoolEarlier(e, f) == e[1] < f[1] \/ (e[1] = f[1] /\ e[2] < f[2])

\* The place of a pool entry once the pool is stably sorted by descending score.
PoolRank(e) ==
    Cardinality({f \in Pool : \/ PoolScore(f) > PoolScore(e)
                              \/ PoolScore(f) = PoolScore(e) /\ PoolEarlier(f, e)}) + 1

Rendered(e) == "From " \o documents[e[1]].name \o ":\n" \o PoolText(e)

\* The entries of rank n..3 (or fewer), rendered and separated by blank lines.
RECURSIVE RenderedFrom(_)
RenderedFrom(n) ==
    IF n > 3 \/ n > Cardinality(Pool) THEN ""
    ELSE (IF n > 1 THEN "\n\n" ELSE "")
         \o Rendered(CHOOSE e \in Pool : PoolRank(e) = n)
         \o RenderedFrom(n + 1)

\* The positions of s at which sub begins.
Places(s, sub) ==
    {i \in 1..(Len(s) - Len(sub) + 1) : SubSeq(s, i, i + Len(sub) - 1) = sub}

\* C13: the context renders the first three (or fewer) entries of the pool
\* of every document's top-2 results, the pool being in document order and
\* stably sorted by descending score; it holds at most 3 entries, at most 2
\* of one document, and it is "" exactly when there is no document or no
\* document has a chunk of non-zero score.
C13_ContextIsTopThreeOfPool ==
    ContextDone =>
        /\ context = IF Pool = {} THEN ""
                     ELSE "\n\n--- RELEVANT NUTRITION INFORMATION ---\n"
                          \o RenderedFrom(1)
                          \o "\n--- END NUTRITION INFORMATION ---\n\n"
        /\ Cardinality(Places(context, "From ")) <= 3
        /\ Cardinality(Places(context, "From ")) = Min(3, Cardinality(Pool))
        /\ \A d \in 1..Len(documents) :
              Cardinality(Places(context, "From " \o documents[d].name \o ":")) <= 2
        /\ context = "" <=>
              \/ documents = <<>>
              \/ \A d \in 1..Len(documents) : \A i \in 1..Len(documents[d].chunks) :
                    ChunkScore(query, documents[d].chunks[i]) = 0

\* Two documents offer four entries; the second document's best chunk goes
\* first and the first document's second result is cut.
C13_Witness ==
    /\ ContextDone
    /\ query = "a b"
    /\ Len(documents) = 2
    /\ documents[1].chunks = <<"a", "a a", "a">>
    /\ documents[2].chunks = <<"b A", "a b", "a a">>
    /\ Cardinality(Places(context, "From ")) = 3
    /\ Cardinality(Places(context, "From d1.txt:")) = 1
    /\ Cardinality(Places(context, "From d2.txt:")) = 2

----------------------------------------------------------------------------
(* The safety check under study: check_nutrition_safety is called once on   *)
(* a text, with or without the classifiers.                                 *)

\* Texts with patterns in and out of catalogue order, in upper case, with
\* and without body terms, of 10 characters, and short once trimmed.
SafetyTexts ==
    {"stop eating and starve yourself", "grilled chicken with broccoli",
     "Crash Diet", "I hate my body weight", "is detox tea harmful",
     "my food diary", "  toxic      "}

\* The toxicity classifier returns the scores of both labels (in hundredths),
\* in either order, or no score at all, or it raises.
SafetyToxicityOutcomes ==
    {[raises |-> TRUE, scores |-> <<>>],
     [raises |-> FALSE, scores |-> <<>>],
     [raises |-> FALSE,
      scores |-> <<[label |-> "TOXIC", score |-> 71],
                   [label |-> "NON_TOXIC", score |-> 29]>>],
     [raises |-> FALSE,
      scores |-> <<[label |-> "TOXIC", score |-> 70],
                   [label |-> "NON_TOXIC", score |-> 30]>>],
     [raises |-> FALSE,
      scores |-> <<[label |-> "NON_TOXIC", score |-> 29],
                   [label |-> "TOXIC", score |-> 71]>>],
     [raises |-> FALSE,
      scores |-> <<[label |-> "NON_TOXIC", score |-> 90],
                   [label |-> "TOXIC", score |-> 10]>>]}

SafetySentimentOutcomes ==
    {[raises |-> TRUE, label |-> "", score |-> 0],
     [raises |-> FALSE, label |-> "NEGATIVE", score |-> 91],
     [raises |-> FALSE, label |-> "NEGATIVE", score |-> 90],
     [raises |-> FALSE, label |-> "POSITIVE", score |-> 95]}

InitSafety ==
    /\ pc = "safety_call"
    /\ safety_text \in SafetyTexts
    /\ SENTIMENT_AVAILABLE \in BOOLEAN
    /\ classifiers \in {[toxicity |-> t, sentiment |-> sn] :
                           t \in SafetyToxicityOutcomes,
                           sn \in SafetySentimentOutcomes}
    /\ verdict = [is_safe |-> TRUE, flagged |-> <<>>]
    /\ user_profile = [allergies |-> "", unpreferred_foods |-> <<>>]
    /\ SettingsIdle
    /\ StoresIdle
    /\ ChunkIdle
    /\ SearchIdle
    /\ RagIdle
    /\ FilterIdle
    /\ SpeechIdle
    /\ CsvIdle
    /\ UploadIdle
    /\ CalcIdle

CheckNutritionSafety ==
    /\ pc = "safety_call"
    /\ verdict' = check_nutrition_safety(safety_text, SENTIMENT_AVAILABLE,
                                         classifiers)
    /\ pc' = "safety_done"
    /\ UNCHANGED <<safety_text, classifiers, chunkVars, searchVars, ragVars,
                   filterVars, configVars, speechVars,
                   csvVars, uploadVars, calcVars, sessionVars>>

NextSafety == CheckNutritionSafety

SpecSafety == InitSafety /\ [][NextSafety]_vars

----------------------------------------------------------------------------
(* Properties of the safety check.                                          *)

SafetyDone == pc = "safety_done"

ToxicMarker == "AI-detected toxic content"
NegativityMarker == "AI-detected harmful body/food negativity"

Flagged(term) == \E n \in 1..Len(verdict.flagged) : verdict.flagged[n] = term

\* The catalogue positions of the patterns that occur in the lower-cased text.
PatternHits ==
    {k \in 1..Len(unsafe_patterns) : Contains(Lower(safety_text), unsafe_patterns[k])}

\* The first entries of flaggedTerms, as many as there are hits, are the
\* patterns that occur in the text, in catalogue order.
Stage1Reported ==
    /\ Len(verdict.flagged) >= Cardinality(PatternHits)
    /\ \A k \in PatternHits :
          verdict.flagged[Cardinality({j \in PatternHits : j <= k})]
              = unsafe_patterns[k]

\* flaggedTerms holds the stage 1 matches and nothing else.
Stage1Only == Stage1Reported /\ Len(verdict.flagged) = Cardinality(PatternHits)

\* C15: without a classifier backend flaggedTerms is exactly the catalogue
\* patterns that are substrings of the lower-cased text, as pattern strings
\* in catalogue order, and isSafe holds exactly when flaggedTerms is empty;
\* "stop eating and starve yourself" flags "stop eating" and "starve
\* yourself", "grilled chicken with broccoli" is safe with no flagged term.
C15_PatternStageVerdict ==
    (SafetyDone /\ ~SENTIMENT_AVAILABLE) =>
        /\ Stage1Only
        /\ verdict.is_safe <=> verdict.flagged = <<>>
        /\ safety_text = "stop eating and starve yourself" =>
               Flagged("stop eating") /\ Flagged("starve yourself")
        /\ safety_text = "grilled chicken with broccoli" =>
               verdict = [is_safe |-> TRUE, flagged |-> <<>>]

\* Two patterns that occur in the text in the order opposite to the
\* catalogue's are reported in catalogue order.
C15_Witness ==
    /\ SafetyDone /\ ~SENTIMENT_AVAILABLE
    /\ safety_text = "is detox tea harmful"
    /\ verdict = [is_safe |-> FALSE, flagged |-> <<"harmful", "detox tea">>]

\* Stage 2 runs: a backend is there and the trimmed text has over 10 characters.
Stage2Applies == SENTIMENT_AVAILABLE /\ Len(Strip(safety_text)) > 10

\* The score the toxicity classifier gives the class TOXIC exceeds 0.7.
ToxicAboveThreshold ==
    \E n \in 1..Len(classifiers.toxicity.scores) :
        /\ classifiers.toxicity.scores[n].label = "TOXIC"
        /\ classifiers.toxicity.scores[n].score > 70

NegativeAboutBodyOrFood ==
    /\ classifiers.sentiment.label = "NEGATIVE"
    /\ classifiers.sentiment.score > 90
    /\ \E n \in 1..Len(body_terms) : Contains(Lower(safety_text), body_terms[n])

\* C16: when stage 2 does not run (no backend, or a trimmed text of at most
\* 10 characters) neither marker is in flaggedTerms; when it runs and no
\* classifier raises, the toxicity marker is there exactly when the score of
\* the class TOXIC exceeds 0.7 and, whatever the toxicity result, the
\* negativity marker is there exactly when the sentiment is NEGATIVE with a
\* score above 0.9 and the text holds a body/food term.
C16_ClassifierStage ==
    SafetyDone =>
        /\ ~Stage2Applies => ~Flagged(ToxicMarker) /\ ~Flagged(NegativityMarker)
        /\ (/\ Stage2Applies
            /\ ~classifiers.toxicity.raises
            /\ ~classifiers.sentiment.raises) =>
               /\ Flagged(ToxicMarker) <=> ToxicAboveThreshold
               /\ Flagged(NegativityMarker) <=> NegativeAboutBodyOrFood
               /\ Stage1Reported

\* A text without any pattern gets both markers: TOXIC, listed second by the
\* classifier, has 0.71 and the sentiment is NEGATIVE with 0.91.
C16_Witness ==
    /\ SafetyDone /\ SENTIMENT_AVAILABLE
    /\ safety_text = "my food diary"
    /\ classifiers.toxicity.scores # <<>>
    /\ classifiers.toxicity.scores[1].label = "NON_TOXIC"
    /\ verdict = [is_safe |-> FALSE, flagged |-> <<ToxicMarker, NegativityMarker>>]

\* C17: when a classifier call raises during stage 2, a verdict is still
\* returned, it reports every stage 1 match and it holds no stage 2 marker:
\* it is the stage 1 verdict.
C17_ClassifierFailureFallsBack ==
    (/\ SafetyDone
     /\ Stage2Applies
     /\ (classifiers.toxicity.raises \/ classifiers.sentiment.raises)) =>
        /\ Stage1Only
        /\ ~Flagged(ToxicMarker) /\ ~Flagged(NegativityMarker)
        /\ verdict.is_safe <=> PatternHits = {}

----------------------------------------------------------------------------
(* Properties of process_nutrition_request.                                 *)

\* A step that is one call of process_nutrition_request.
RequestStep == requests' = requests + 1

LastRecord == chat_history[Len(chat_history)]

\* C1: whatever outcome a call reaches (answered, blocked, exception), the
\* history after it is the history before it plus exactly one record.
C1_ExactlyOneRecord ==
    [][RequestStep =>
          /\ Len(chat_history') = Len(chat_history) + 1
          /\ SubSeq(chat_history', 1, Len(chat_history)) = chat_history]_vars

\* A streamed request that ended in the except clause, with one record.
C1_Witness ==
    /\ requests = 1 /\ Len(chat_history) = 1
    /\ enable_streaming /\ last_request.outcome = "exception"
    /\ LastRecord.request_type = "image"

\* C2: a call whose prompt is flagged calls neither the generation service
\* nor the estimator nor the meal log; all it changes in the session is one
\* more history record, with the response "Content flagged for safety and
\* blocked".
C2_FlaggedOnlyRecords ==
    [][(RequestStep /\ last_request'.flagged # <<>>) =>
          /\ Len(chat_history') = Len(chat_history) + 1
          /\ SubSeq(chat_history', 1, Len(chat_history)) = chat_history
          /\ chat_history'[Len(chat_history')].response
                 = "Content flagged for safety and blocked"
          /\ UNCHANGED <<gen_calls, calc_calls, meal_log, nutrition_data,
                         latest_ai_response, clear_image>>]_vars

\* A flagged prompt in a session where the calculator and the meal log are
\* enabled and the prompt is one they would have acted on.
C2_Witness ==
    /\ requests = 1
    /\ last_request.flagged = <<"stop eating">>
    /\ enable_nutrition_calculator /\ enable_meal_logging
    /\ LastRecord.prompt = "how to stop eating"
    /\ CalculatorRuns(LastRecord.prompt, LastRecord.request_type)

\* C3: when the generation call fails (None returned, or reading or
\* iterating the response raises), the request ends with exactly one record
\* and its response is a fixed, non-empty apology, streaming or not.
C3_FailedGenerationApology ==
    (requests >= 1 /\ last_request.gen \in {"none", "raise"}) =>
        /\ Len(chat_history) = requests
        /\ LastRecord.response \in {NoResponseApology, ExceptionApology}
        /\ LastRecord.response # ""

\* The text on the page is generated text with a recipe keyword and an
\* allergen the user declared.
ShowsRecipeWithAllergen ==
    /\ requests >= 1
    /\ last_request.gen \in {"ok", "raise"}
    /\ last_request.text # ""
    /\ displayed # <<>>
    /\ AnyIn(Lower(last_request.text), recipe_keywords)
    /\ ~filter_recipe_for_user_safety(last_request.text, user_profile.allergies,
                                      user_profile.unpreferred_foods).is_safe

\* C4: whenever generated text with a recipe keyword and a declared allergen
\* is shown, what is on the page is the annotated text of the recipe filter,
\* the allergy warning first, streaming or not.
C4_RecipeFilterGatesDisplay ==
    ShowsRecipeWithAllergen =>
        LET annotated == filter_recipe_for_user_safety(
                             last_request.text, user_profile.allergies,
                             user_profile.unpreferred_foods)
        IN  /\ displayed = <<annotated.filtered_content>>
            /\ displayed[1] # last_request.text
            /\ Contains(displayed[1], "ALLERGY WARNING")

----------------------------------------------------------------------------
(* Properties of the prompt augmentation.                                   *)

\* The first position at which sub occurs in s, 0 if there is none.
FirstIndex(s, sub) ==
    LET hits == {i \in 1..(Len(s) - Len(sub) + 1) :
                    SubSeq(s, i, i + Len(sub) - 1) = sub}
    IN  IF hits = {} THEN 0 ELSE CHOOSE i \in hits : \A j \in hits : i <= j

\* s holds the block ctx and, after the end of the block, the prompt.
BlockBeforePrompt(s, ctx, prompt) ==
    /\ Contains(s, ctx)
    /\ Contains(SubSeq(s, FirstIndex(s, ctx) + Len(ctx), Len(s)), prompt)

\* C14: for a request that reaches generation, the augmented prompt is the
\* original prompt when there is no stored document or the built context is
\* ""; otherwise it holds the context block and, after it, the original
\* prompt; and the text sent to generation holds the augmented prompt as the
\* user question.
C14_AugmentedPromptIsSent ==
    [][(RequestStep /\ last_request'.outcome # "blocked") =>
          \A prompt \in {chat_history'[Len(chat_history')].prompt} :
          \A ctx \in {build_context_from_documents(prompt, nutrition_documents)} :
          \A aug \in {enhance_prompt_with_rag(prompt, nutrition_documents)} :
          \A question \in {"Enhanced User Question: " \o aug \o "\n"} :
              /\ (nutrition_documents = <<>> \/ ctx = "") => aug = prompt
              /\ (nutrition_documents # <<>> /\ ctx # "") =>
                     /\ aug # prompt
                     /\ BlockBeforePrompt(aug, ctx, prompt)
              /\ sent_prompt' # <<>>
              /\ Contains(sent_prompt'[1], question)]_vars

\* A question about eggs was asked with notes.txt stored: the text sent holds
\* the chunk of the document before the question.
C14_Witness ==
    /\ requests = 1
    /\ Len(nutrition_documents) >= 1
    /\ sent_prompt # <<>>
    /\ BlockBeforePrompt(sent_prompt[1], "From notes.txt:\neggs are rich in protein",
                         "calories in two eggs")

----------------------------------------------------------------------------
(* The recipe filter on its own: filter_recipe_for_user_safety applied to   *)
(* a generated recipe under the allergies and the unpreferred foods of a    *)
(* profile.                                                                 *)

FilterRecipes ==
    {"", "Noodles with Peanut Butter Sauce", "Peanut Butter Sauce",
     "Grilled SHRIMP, peanuts", "Oat porridge", "Shellfish stew\nwith milk"}

FilterAllergies ==
    {"", "peanuts, shellfish", "Peanut", " MILK ,shrimp", "peanut, ",
     "gluten", "oat,tofu", ", ,"}

FilterUnpreferred ==
    {<<>>, <<"Oat ">>, <<"shrimp", "Peanut">>, <<"kale">>}

InitFilter ==
    /\ pc = "filter_call"
    /\ recipe \in FilterRecipes
    /\ user_profile \in {[allergies |-> a, unpreferred_foods |-> u] :
                            a \in FilterAllergies, u \in FilterUnpreferred}
    /\ filter_result = [is_safe |-> TRUE, filtered_content |-> "", warnings |-> <<>>]
    /\ SENTIMENT_AVAILABLE = FALSE
    /\ SettingsIdle
    /\ StoresIdle
    /\ ChunkIdle
    /\ SearchIdle
    /\ RagIdle
    /\ SafetyIdle
    /\ SpeechIdle
    /\ CsvIdle
    /\ UploadIdle
    /\ CalcIdle

FilterRecipe ==
    /\ pc = "filter_call"
    /\ filter_result' = filter_recipe_for_user_safety(
                            recipe, user_profile.allergies,
                            user_profile.unpreferred_foods)
    /\ pc' = "filter_done"
    /\ UNCHANGED <<recipe, chunkVars, searchVars, ragVars, safetyVars,
                   configVars,
                   speechVars, csvVars, uploadVars, calcVars, sessionVars>>

NextFilter == FilterRecipe

SpecFilter == InitFilter /\ [][NextFilter]_vars

----------------------------------------------------------------------------
(* Properties of the recipe filter.                                         *)

FilterDone == pc = "filter_done"

\* The pieces of the allergies string between its commas, trimmed and in
\* lower case; none for the empty string.
AllergyTokens ==
    LET s == user_profile.allergies
    IN  IF s = "" THEN {}
        ELSE {Lower(Strip(SubSeq(s, p[1], p[2]))) :
                p \in {q \in (1..(Len(s) + 1)) \X (0..Len(s)) :
                         /\ q[2] >= q[1] - 1
                         /\ (q[1] = 1 \/ Char(s, q[1] - 1) = ",")
                         /\ (q[2] = Len(s) \/ Char(s, q[2] + 1) = ",")
                         /\ \A k \in q[1]..q[2] : Char(s, k) # ","}}

UnpreferredTokens ==
    {Lower(Strip(user_profile.unpreferred_foods[n])) :
        n \in 1..Len(user_profile.unpreferred_foods)}

\* token, in lower case, occurs in the recipe whatever the case of the recipe.
FoundInRecipe(token) ==
    \E k \in 1..(Len(recipe) - Len(token) + 1) :
        Lower(SubSeq(recipe, k, k + Len(token) - 1)) = token

AllergyLines ==
    {n \in 1..Len(filter_result.warnings) :
        Contains(filter_result.warnings[n], "ALLERGY WARNING")}

InfoLines ==
    {n \in 1..Len(filter_result.warnings) :
        Contains(filter_result.warnings[n], "foods you prefer to avoid")}

\* C18: the filter answers unsafe exactly when a token of the allergies
\* string occurs in the recipe, case ignored; an unpreferred food that occurs
\* gives one informational line and has no part in the verdict.
C18_UnsafeIffAllergyFound ==
    FilterDone =>
        /\ ~filter_result.is_safe <=> \E t \in AllergyTokens : FoundInRecipe(t)
        /\ Cardinality(InfoLines)
             = IF \E t \in UnpreferredTokens : FoundInRecipe(t) THEN 1 ELSE 0

C18_Witness ==
    /\ FilterDone
    /\ filter_result.is_safe
    /\ AllergyTokens # {}
    /\ InfoLines # {}

\* C19: with allergies "peanuts, shellfish", a recipe that mentions Peanut
\* Butter Sauce and no other allergen is answered unsafe, and the allergy
\* warning lists the peanut allergen.
C19_PeanutButterSauceIsFlagged ==
    (/\ FilterDone
     /\ user_profile.allergies = "peanuts, shellfish"
     /\ Contains(recipe, "Peanut Butter Sauce"))
    => /\ ~filter_result.is_safe
       /\ \E n \in AllergyLines : Contains(filter_result.warnings[n], "peanut")

\* C20: the annotated text is the recipe itself when nothing was found, and
\* otherwise the warnings, the disclaimer when an allergy was found, a blank
\* line and the recipe, whole and last; the warnings are none exactly when
\* nothing was found.
C20_RecipeKeptVerbatim ==
    FilterDone =>
        LET warnings == filter_result.warnings
            content == filter_result.filtered_content
            found == \E t \in AllergyTokens \cup UnpreferredTokens : FoundInRecipe(t)
        IN  /\ EndsWith(content, recipe)
            /\ (warnings = <<>>) <=> ~found
            /\ ~found => content = recipe
            /\ found =>
                 \E head \in {SubSeq(content, 1, Len(content) - Len(recipe) - 2)} :
                    /\ content = head \o "\n\n" \o recipe
                    /\ head = "\n\n" \o JoinWith(warnings, "\n")
                              \o (IF filter_result.is_safe THEN "" ELSE AllergyDisclaimer)
                    /\ Contains(head, "consult with a healthcare provider")
                         <=> AllergyLines # {}

C20_Witness ==
    /\ FilterDone
    /\ recipe # ""
    /\ AllergyLines # {}
    /\ InfoLines # {}
    /\ EndsWith(filter_result.filtered_content, "\n\n" \o recipe)


\* C28: the filter answers unsafe only if a declared allergen that is not
\* empty occurs in the recipe: the empty tokens that a trailing comma or
\* ", ," leave when the allergies are parsed are never detected, so a recipe
\* with none of the declared allergens is answered safe.
C28_EmptyTokensNeverDetected ==
    FilterDone =>
        /\ ~filter_result.is_safe
              => \E t \in AllergyTokens : t # "" /\ FoundInRecipe(t)
        /\ (\A t \in AllergyTokens : t # "" => ~FoundInRecipe(t))
              => /\ filter_result.is_safe
                 /\ AllergyLines = {}

----------------------------------------------------------------------------
(* The nutrition calculator on its own: calculate_nutrition is called once  *)
(* on a food description and a quantity, whatever the API does.             *)

CalcFoods ==
    {"2 eggs", "Two Eggs", "eggs", "three apples", "half a banana",
     "half of two eggs", "chicken salad", "Chicken Breast", "pineapple",
     "xyzfood", "meatball", "berry fruit meat", "fruit vegetable",
     "Vegetable grain", "three grains"}

CalcQuantities ==
    {"1 serving", "2 servings", "3 cups", "0.5 cup", "two servings",
     "half cup", "13 oz"}

\* The API as the single attempt meets it: no credentials, an exception, a
\* status other than 200, and 200 with 0, 0.3 and 154.6 kcal.
CalcEnvs ==
    {[has_credentials |-> c, raises |-> r, status_code |-> st,
      data |-> [calories |-> cal,
                totalNutrients |-> [k \in {"PROCNT"} |-> 1263]]] :
        c \in BOOLEAN, r \in BOOLEAN, st \in {200, 404}, cal \in {0, 3, 1546}}

InitCalc ==
    /\ pc = "calc_call"
    /\ calc_food \in CalcFoods
    /\ calc_quantity \in CalcQuantities
    /\ calc_env \in CalcEnvs
    /\ calc_result = <<>>
    /\ api_requests = 0
    /\ SessionIdle
    /\ ChunkIdle
    /\ SearchIdle
    /\ RagIdle
    /\ SafetyIdle
    /\ FilterIdle
    /\ SpeechIdle
    /\ CsvIdle
    /\ UploadIdle

CalculateNutrition ==
    /\ pc = "calc_call"
    /\ calc_result' = calculate_nutrition(calc_food, calc_quantity, calc_env)
    /\ api_requests' = api_requests + EdamamRequests(calc_env)
    /\ pc' = "calc_done"
    /\ UNCHANGED <<calc_food, calc_quantity, calc_env, chunkVars, searchVars,
                   ragVars, safetyVars, filterVars, configVars,
                   speechVars, csvVars,
                   uploadVars, sessionVars>>

NextCalc == CalculateNutrition

SpecCalc == InitCalc /\ [][NextCalc]_vars

----------------------------------------------------------------------------
(* Properties of the nutrition calculator.                                  *)

CalcDone == pc = "calc_done"

\* The single attempt answered 200 with calories above 0.
ApiYields ==
    /\ calc_env.has_credentials
    /\ ~calc_env.raises
    /\ calc_env.status_code = 200
    /\ calc_env.data.calories > 0

\* The places of the table whose key occurs in the lower-cased description.
LocalKeys ==
    {k \in 1..Len(food_db) : Contains(Lower(calc_food), food_db[k].key)}

\* C21: the API estimate is returned exactly when the single attempt answers
\* 200 with calories above 0; otherwise the local table answers when one of
\* its keys matches, and the estimate only when none does; the API is asked
\* at most once and there is always a result.
C21_FallbackOrder ==
    CalcDone =>
        /\ calc_result # <<>> /\ calc_result # None
        /\ api_requests <= 1
        /\ (calc_result.source = "Edamam API") <=> ApiYields
        /\ ApiYields => calc_result.success
        /\ (calc_result.source = "Local Database")
              <=> (~ApiYields /\ LocalKeys # {})
        /\ calc_result.source = "Local Database" => calc_result.success
        /\ (calc_result.source = "Estimated")
              <=> (~ApiYields /\ LocalKeys = {})
        /\ calc_result.source = "Estimated" => ~calc_result.success

\* The API answered 200 and no calories; the local table answered instead.
C21_Witness ==
    /\ CalcDone
    /\ calc_env.has_credentials /\ ~calc_env.raises
    /\ calc_env.status_code = 200 /\ calc_env.data.calories = 0
    /\ api_requests = 1
    /\ calc_result.source = "Local Database"

\* word occurs in the lower-cased description or in the quantity.
EitherHolds(word) ==
    Contains(Lower(calc_food), word) \/ Contains(calc_quantity, word)

\* The multiplier as cues of either field give it, in halves.
CuedMultiplier ==
    IF EitherHolds("2") \/ EitherHolds("two") THEN 4
    ELSE IF EitherHolds("3") \/ EitherHolds("three") THEN 6
    ELSE IF EitherHolds("half") \/ EitherHolds("0.5") THEN 1
    ELSE 2

\* The calories of the table entry or of the baseline the call scales.
BaseCalories ==
    IF LocalKeys # {}
    THEN food_db[CHOOSE k \in LocalKeys : \A j \in LocalKeys : k <= j].calories
    ELSE EstimatedBaseline(Lower(calc_food)).calories

\* C22: without an API estimate the calories are the table (or baseline)
\* value times 2 when the description or the quantity holds "2" or "two",
\* else times 3 when either holds "3" or "three", else times 0.5 when either
\* holds "half" or "0.5", else times 1, rounded to an integer; "2 eggs" in
\* "2 servings" gives 140 from the local table.
C22_MultiplierFromEitherField ==
    (CalcDone /\ ~ApiYields) =>
        /\ 2 * calc_result.calories - BaseCalories * CuedMultiplier \in -1..1
        /\ (calc_food = "2 eggs" /\ calc_quantity = "2 servings")
              => /\ calc_result.calories = 140
                 /\ calc_result.source = "Local Database"

\* The entry of the table that comes first among those whose key matches.
FirstLocalEntry ==
    food_db[CHOOSE k \in LocalKeys : \A j \in LocalKeys : k <= j]

\* The values of a table entry or baseline under the multiplier of the call.
Scaled(entry) ==
    LET mult == Multiplier(Lower(calc_food), calc_quantity)
    IN  <<ScaleCalories(entry.calories, mult), ScaleTenths(entry.protein, mult),
          ScaleTenths(entry.carbs, mult), ScaleTenths(entry.fat, mult)>>

ResultValues ==
    <<calc_result.calories, calc_result.protein, calc_result.carbs, calc_result.fat>>

\* C23: without an API estimate, of the table keys that are substrings of the
\* lower-cased description the first in the declared order gives the values:
\* "chicken salad" is chicken, not salad, and "pineapple" is apple.
C23_FirstDeclaredKeyWins ==
    (CalcDone /\ ~ApiYields /\ LocalKeys # {}) =>
        /\ calc_result.source = "Local Database"
        /\ ResultValues = Scaled(FirstLocalEntry)
        /\ calc_food = "chicken salad" => FirstLocalEntry.key = "chicken"
        /\ calc_food = "pineapple" => FirstLocalEntry.key = "apple"

\* Two keys match and their entries differ.
C23_Witness ==
    /\ CalcDone
    /\ ~ApiYields
    /\ calc_food = "chicken salad"
    /\ Cardinality(LocalKeys) = 2
    /\ calc_quantity = "2 servings"
    /\ calc_result.calories = 330

\* The categories in the order they are tried, with their baselines.
Categories ==
    <<[words |-> {"meat", "chicken", "beef", "pork", "fish"},
       base |-> [calories |-> 200, protein |-> 250, carbs |-> 20, fat |-> 80]],
      [words |-> {"fruit", "apple", "orange", "berry"},
       base |-> [calories |-> 80, protein |-> 10, carbs |-> 200, fat |-> 5]],
      [words |-> {"vegetable", "broccoli", "carrot", "spinach"},
       base |-> [calories |-> 30, protein |-> 20, carbs |-> 60, fat |-> 3]],
      [words |-> {"bread", "pasta", "rice", "grain"},
       base |-> [calories |-> 180, protein |-> 60, carbs |-> 350, fat |-> 20]]>>

GenericBaseline == [calories |-> 150, protein |-> 80, carbs |-> 200, fat |-> 50]

MatchingCategories ==
    {c \in 1..Len(Categories) :
        \E w \in Categories[c].words : Contains(Lower(calc_food), w)}

\* C24: without an API estimate and without a matching table key the result
\* is an estimate (success false, source Estimated, with a note) from the
\* baseline of the first matching category in the order meat, fruit,
\* vegetable, grain, or from the generic baseline 150 / 8 / 20 / 5 when none
\* matches, as for "xyzfood"; the baseline is scaled by the multiplier.
C24_EstimateFromFirstCategory ==
    (CalcDone /\ ~ApiYields /\ LocalKeys = {}) =>
        /\ calc_result.source = "Estimated"
        /\ ~calc_result.success
        /\ calc_result.note # ""
        /\ ResultValues =
             Scaled(IF MatchingCategories = {} THEN GenericBaseline
                    ELSE Categories[CHOOSE c \in MatchingCategories :
                                       \A d \in MatchingCategories : c <= d].base)
        /\ calc_food = "xyzfood" => MatchingCategories = {}

\* Two categories match; the baseline of meat is halved.
C24_Witness ==
    /\ CalcDone
    /\ ~ApiYields
    /\ calc_food = "berry fruit meat"
    /\ calc_quantity = "0.5 cup"
    /\ LocalKeys = {}
    /\ Cardinality(MatchingCategories) = 2
    /\ ResultValues = <<100, 125, 10, 40>>

----------------------------------------------------------------------------
(* The document uploader over the runs of a page: the upload widget keeps   *)
(* its files from one run to the next, and every interaction of the user    *)
(* runs the page, and with it nutrition_document_uploader, again.           *)

\* notes.txt again, with another text.
NotesFileEdited ==
    [name |-> "notes.txt", type |-> "text/plain", ok |-> TRUE,
     text |-> "eggs are rich in fat"]

UploadableFiles == {NotesFile, NotesFileEdited, ScanFile, LogFile}

InitUpload ==
    /\ pc = "page"
    /\ widget_files = <<>>
    /\ page_event = "none"
    /\ SessionIdle
    /\ ChunkIdle
    /\ SearchIdle
    /\ RagIdle
    /\ SafetyIdle
    /\ FilterIdle
    /\ SpeechIdle
    /\ CsvIdle
    /\ CalcIdle

\* What every run of the page leaves alone.
UploadFrame ==
    UNCHANGED <<pc, chunkVars, searchVars, ragVars, safetyVars, filterVars,
                configVars, speechVars,
                   csvVars, calcVars, chat_history, meal_log, nutrition_data,
                latest_ai_response, clear_image, displayed, sent_prompt,
                gen_calls, calc_calls, requests, last_request>>

\* The user adds a file to the widget; the page runs.
UploadFile ==
    /\ Len(widget_files) < MaxWidgetFiles
    /\ \E file \in UploadableFiles :
          /\ widget_files' = Append(widget_files, file)
          /\ nutrition_documents' =
                nutrition_document_uploader(nutrition_documents,
                                            Append(widget_files, file), FALSE)
    /\ page_event' = "upload"
    /\ UploadFrame

\* The user takes a file out of the widget; the page runs.
RemoveFile ==
    /\ \E i \in 1..Len(widget_files) :
          LET rest == SubSeq(widget_files, 1, i - 1)
                      \o SubSeq(widget_files, i + 1, Len(widget_files))
          IN  /\ widget_files' = rest
              /\ nutrition_documents' =
                    nutrition_document_uploader(nutrition_documents, rest, FALSE)
    /\ page_event' = "remove"
    /\ UploadFrame

\* Any other interaction runs the page with the widget as it is.
PageRerun ==
    /\ nutrition_documents' =
          nutrition_document_uploader(nutrition_documents, widget_files, FALSE)
    /\ page_event' = "rerun"
    /\ UNCHANGED widget_files
    /\ UploadFrame

\* The user presses "Clear All Documents", drawn while the widget holds files.
PressClear ==
    /\ widget_files # <<>>
    /\ nutrition_documents' =
          nutrition_document_uploader(nutrition_documents, widget_files, TRUE)
    /\ page_event' = "clear"
    /\ UNCHANGED widget_files
    /\ UploadFrame

NextUpload == UploadFile \/ RemoveFile \/ PageRerun \/ PressClear

SpecUpload == InitUpload /\ [][NextUpload]_vars

----------------------------------------------------------------------------
(* Properties of the document uploader.                                     *)

StoredNames == {nutrition_documents[d].name : d \in 1..Len(nutrition_documents)}

NoDuplicateNames ==
    \A d, e \in 1..Len(nutrition_documents) :
        nutrition_documents[d].name = nutrition_documents[e].name => d = e

\* A run without "Clear" keeps the stored documents as they are and in
\* place, and stores nothing when every file presented has a stored name.
RunKeepsStored ==
    page_event' # "clear" =>
        /\ Len(nutrition_documents') >= Len(nutrition_documents)
        /\ SubSeq(nutrition_documents', 1, Len(nutrition_documents))
             = nutrition_documents
        /\ (\A i \in 1..Len(widget_files') : widget_files'[i].name \in StoredNames)
              => nutrition_documents' = nutrition_documents

\* C25: ingestion is idempotent per file name: no two stored documents ever
\* have the same name, and a run that presents only files whose names are
\* stored leaves the stored list as it is.
C25_IngestionIdempotentPerName ==
    []NoDuplicateNames /\ [][RunKeepsStored]_vars

\* The widget holds notes.txt twice, the second with another text; one
\* document of that name is stored, with the text of the first.
C25_Witness ==
    /\ page_event = "rerun"
    /\ widget_files = <<NotesFile, NotesFileEdited>>
    /\ Len(nutrition_documents) = 1
    /\ nutrition_documents[1].name = "notes.txt"
    /\ nutrition_documents[1].content = "eggs are rich in protein"

\* C29: pressing "Clear All Documents" leaves the stored list empty, and it
\* stays empty through the runs that follow as long as no file is added to
\* the widget: the files the widget still holds are not ingested again.
C29_ClearLeavesListEmpty ==
    [][/\ page_event' = "clear" => nutrition_documents' = <<>>
       /\ (nutrition_documents = <<>> /\ page_event' \in {"rerun", "remove"})
             => nutrition_documents' = <<>>]_vars

----------------------------------------------------------------------------
(* The CSV reader on its own: process_csv_file is called once on a file of  *)
(* one or two columns whose cells hold the number of their row or nothing.  *)

CsvRowCounts == {0, 1, 2, 98, 99, 100, 101, 102, 150}

CsvNullEvery == {2, 3, 1000}

CsvColumnSets == {<<"kcal">>, <<"kcal", "food">>}

\* A readable or unreadable file of n rows; the cells of every row whose
\* number is a multiple of gap are empty.
CsvFile(readable, columns, n, gap) ==
    [name |-> "log.csv", type |-> "text/csv", ok |-> readable,
     columns |-> columns,
     rows |-> [i \in 1..n |->
                 [c \in 1..Len(columns) |->
                    IF i % gap = 0 THEN <<>> ELSE <<ToString(i)>>]]]

InitCsv ==
    /\ pc = "csv_call"
    /\ csv_file \in {CsvFile(readable, columns, n, gap) :
                        readable \in BOOLEAN, columns \in CsvColumnSets,
                        n \in CsvRowCounts, gap \in CsvNullEvery}
    /\ csv_content = ""
    /\ SessionIdle
    /\ ChunkIdle
    /\ SearchIdle
    /\ RagIdle
    /\ SafetyIdle
    /\ FilterIdle
    /\ CalcIdle
    /\ UploadIdle
    /\ SpeechIdle

ProcessCsvFile ==
    /\ pc = "csv_call"
    /\ csv_content' = process_csv_file(csv_file)
    /\ pc' = "csv_done"
    /\ UNCHANGED <<csv_file, chunkVars, searchVars, ragVars, safetyVars,
                   filterVars, calcVars, uploadVars, speechVars, configVars,
                   sessionVars>>

NextCsv == ProcessCsvFile

SpecCsv == InitCsv /\ [][NextCsv]_vars

----------------------------------------------------------------------------
(* Properties of the CSV reader.                                            *)

CsvDone == pc = "csv_done"

RowLinesWritten == Cardinality(Places(csv_content, "Row "))

\* C26: the text holds at most 100 "Row N" lines, and the notice of the rows
\* left out is written exactly when the file has more than 100 rows.
C26_NoticeOnlyWhenTruncated ==
    (CsvDone /\ csv_file.ok) =>
        /\ RowLinesWritten <= 100
        /\ RowLinesWritten = Min(Len(csv_file.rows), 100)
        /\ Contains(csv_content, "more rows") <=> Len(csv_file.rows) > 100

----------------------------------------------------------------------------
(* Properties of the record of an answered request.                         *)

\* C27: a request that was not flagged and whose generation call gave its
\* text is recorded with that text, or with its annotated form, as the
\* response, whatever words the text holds; the placeholder of the except
\* clause is recorded only when an external call failed.
C27_AnswerRecordedAsGenerated ==
    requests >= 1 =>
        /\ (last_request.flagged = <<>> /\ last_request.gen = "ok") =>
              /\ Len(chat_history) = requests
              /\ LastRecord.response
                    \in {last_request.text,
                         filter_recipe_for_user_safety(
                             last_request.text, user_profile.allergies,
                             user_profile.unpreferred_foods).filtered_content}
        /\ LastRecord.response = ExceptionApology
              => last_request.gen \in {"none", "raise"}

----------------------------------------------------------------------------
(* Speech synthesis: text_to_speech is called on answers, one call after    *)
(* the other; the stream of edge_tts gives audio, gives nothing or raises.  *)

SpeechTexts ==
    {"", "**Tip**", "Eat *more* greens", "# Plan\n- oats\n- eggs",
     "**a*\n*b** ok!", "-#- hi"}

SpeechStreams == {"audio", "silent", "raises"}

InitSpeech ==
    /\ pc = "speech_ready"
    /\ TTS_AVAILABLE \in BOOLEAN
    /\ speech_text = ""
    /\ speech_stream = "raises"
    /\ speech_loops = <<>>
    /\ speech_result = <<>>
    /\ speech_calls = 0
    /\ SessionIdle
    /\ ChunkIdle
    /\ SearchIdle
    /\ RagIdle
    /\ SafetyIdle
    /\ FilterIdle
    /\ CalcIdle
    /\ UploadIdle
    /\ CsvIdle

SpeechFrame ==
    UNCHANGED <<TTS_AVAILABLE, chunkVars, searchVars, ragVars, safetyVars,
                filterVars, calcVars, uploadVars, csvVars, configVars,
                sessionVars>>

\* text_to_speech is called: it returns None at once, or cleans the text,
\* creates its event loop and enters run_until_complete.
TextToSpeechCall ==
    /\ pc = "speech_ready"
    /\ speech_calls < MaxSpeechCalls
    /\ speech_calls' = speech_calls + 1
    /\ \E s \in SpeechTexts, stream \in SpeechStreams :
          /\ speech_text' = s
          /\ speech_stream' = stream
          /\ IF CreatesLoop(TTS_AVAILABLE, s)
             THEN /\ speech_loops' = Append(speech_loops, NewRunningLoop)
                  /\ speech_result' = <<>>
                  /\ pc' = "speech_running"
             ELSE /\ speech_result' = None
                  /\ UNCHANGED <<speech_loops, pc>>
    /\ SpeechFrame

\* generate_speech comes to its end: the loop is closed and the audio, or
\* None when there is none, is returned.
SpeechCompletes ==
    /\ pc = "speech_running"
    /\ speech_stream # "raises"
    /\ speech_loops' = [speech_loops EXCEPT ![Len(speech_loops)] = ClosedLoop]
    /\ speech_result' = IF speech_stream = "audio"
                        THEN [py |-> "bytes"] ELSE None
    /\ pc' = "speech_ready"
    /\ UNCHANGED <<speech_text, speech_stream, speech_calls>>
    /\ SpeechFrame

\* generate_speech raises: the except clause returns None.
SpeechRaises ==
    /\ pc = "speech_running"
    /\ speech_stream = "raises"
    /\ speech_loops' = [speech_loops EXCEPT ![Len(speech_loops)] = AbandonedLoop]
    /\ speech_result' = None
    /\ pc' = "speech_ready"
    /\ UNCHANGED <<speech_text, speech_stream, speech_calls>>
    /\ SpeechFrame

NextSpeech == TextToSpeechCall \/ SpeechCompletes \/ SpeechRaises

SpecSpeech == InitSpeech /\ [][NextSpeech]_vars

----------------------------------------------------------------------------
(* Properties of speech synthesis.                                          *)

\* C30: once a call of text_to_speech has returned, with audio or with None,
\* every event loop it created is closed and none is running, whether the
\* generation succeeded or raised.
C30_LoopTornDownOnReturn ==
    pc = "speech_ready" =>
        \A n \in 1..Len(speech_loops) :
            speech_loops[n].closed /\ ~speech_loops[n].running

====
